---- MODULE Spec2Model ----
(***************************************************************************)
(* A model of the option-execution engine of MagickWand/operation.c: the   *)
(* CLI wand (image list, settings, draw and quantize defaults, the two     *)
(* stacks, the exception sink) and the handlers that apply one option to   *)
(* it: CLISettingOptionInfo, CLISimpleOperatorImages,                      *)
(* CLIListOperatorImages and CLISpecialOperator.                           *)
(***************************************************************************)
EXTENDS Integers, Sequences, FiniteSets, TLC

(* ---------------------------------------------------------------- values *)

\* #define MAX_STACK_DEPTH 32
MAX_STACK_DEPTH == 32

\* The null pointer, for strings (an absent option value, a missing argument).
NULL == "NULL"

\* static const char BackgroundColor[] = "#fff"
BackgroundColor == "#fff"

(* ---------------------------------------------------------------- bounds *)

\* Spec: the most images alive at once, and the deepest nesting the caller opens.
MaxImages == 1
MaxNest == 2
\* Spec: the deepest settings stack at which the caller still gives a "{".
MaxBraces == 1
\* SpecDeep: the most options other than "(" that one run holds.
MaxOther == 2
\* SpecList: the most images alive at once, the most images one read loads,
\* the most tiles one image is split into, the deepest nesting.
MaxListImages == 3
MaxSplitImages == 4
MaxLoad == 2
MaxTiles == 2
MaxListNest == 1
\* SpecOps: the most images alive at once.
MaxOpsImages == 3
\* Errors: nesting and images while allocations fail and the sink is drained.
MaxErrNest == 2
MaxErrImages == 2
\* Settings: setting options applied, images and nesting alongside them.
MaxSetSteps == 3
MaxSetImages == 1
MaxSetNest == 1
\* The mini-parser: tokens in an argument string.
MaxTokens == 7
\* Control operators: images alive at once, images one load yields, nesting.
MaxCtlImages == 2
MaxCtlLoad == 2
MaxCtlNest == 2
\* Groups without settings groups: nesting and images.
MaxParNest == 3
MaxParImages == 1
\* Layer methods and the options redirected to them: images alive at once.
MaxLayImages == 3
\* Ping and verbose: images alive at once and open settings groups.
MaxPingImages == 2
MaxPingNest == 1
\* The blur family: images alive at once.
MaxBlurImages == 2
\* The channels SparseColorOption tests for the update trait.
MaxColors == 5

(* ----------------------------------------------------------------- state *)

VARIABLES
  images,            \* cli_wand->wand.images: the image list, in list order
  image_index,       \* position in the list of the image wand.images points at (0: NULL)
  image_list_stack,  \* cli_wand->image_list_stack, top first
  image_info,        \* cli_wand->wand.image_info
  image_info_stack,  \* cli_wand->image_info_stack, top first
  draw_info,         \* cli_wand->draw_info
  quantize_info,     \* cli_wand->quantize_info
  exception,         \* cli_wand->wand.exception
  last,              \* the option processed last, what it reported, its loop counters
  opened,            \* per open group: the settings and toggle its "(" found
  budget,            \* options other than "(" the run has processed (SpecDeep only)
  given,             \* what each transform of the last per-image pass produced (SpecSplit only)
  visited,            \* the images the last per-image pass handed to the handler (SpecSplit only)
  parse,             \* one call of SparseColorOption: its arguments, locals and result (SpecParse only)
  signature          \* whether cli_wand->signature and cli_wand->wand.signature hold WandSignature

vars == <<images, image_index, image_list_stack, image_info, image_info_stack,
          draw_info, quantize_info, exception, last, opened, budget, given,
          visited, parse, signature>>

\* Both signatures hold WandSignature: the wand is valid.
WandSignature == [cli_wand |-> TRUE, wand |-> TRUE]

\* No transform was called.
NoCall == [name |-> "NULL", rho |-> 0, sigma |-> 0, xi |-> 0]

\* The wand as one value: what a handler reads, and what it leaves behind.
\* err, i, n, made and syncs are the handler's locals that the claims speak
\* of: the exception it threw (if any), the per-image loop's counters, the
\* number of new images its transforms handed back, and the number of times
\* it synchronized image attributes from the settings; status and reported
\* are what CLICatchException returned and whether it reported the sink;
\* entry is the entry point a special operator went on to: the loader for a
\* read, the settings branch ("{" or "}") for a grouping option; arg1 is the
\* argument of a per-image option and call the transform its branch called
\* last, with the geometry it was given.
Wand ==
  [images |-> images, image_index |-> image_index,
   image_list_stack |-> image_list_stack,
   image_info |-> image_info, image_info_stack |-> image_info_stack,
   draw_info |-> draw_info, quantize_info |-> quantize_info,
   exception |-> exception, err |-> "none", i |-> 0, n |-> 0, made |-> 0,
   syncs |-> 0, seen |-> <<>>, status |-> FALSE, reported |-> FALSE,
   entry |-> NULL, arg1 |-> NULL, call |-> NoCall]

(* ---------------------------------------------------- the settings store *)

OptionKeys ==
  {"respect-parenthesis", "background", "undercolor", "dither", "fill", "page",
   "verbose"}

GetImageOption(info, key) == info.options[key]

\* A NULL value deletes the option.
SetImageOption(info, key, value) == [info EXCEPT !.options[key] = value]

DeleteImageOption(info, key) == [info EXCEPT !.options[key] = NULL]

\* A copy by value: the clone holds what the original holds.
CloneImageInfo(info) == info

\* The color a color name resolves to (names resolve to themselves here).
QueryColorCompliance(name) == name

\* Whether QueryColorCompliance succeeds: the name is a color, not a file.
IsColor(name) == name \in {"none", "red", "#fff", "#000"}

\* ParseCommandOption(MagickDitherOptions,MagickFalse,name), names compared
\* without regard to case.
ParseDitherOption(name) ==
  CASE name \in {"none", "None"} -> "NoDitherMethod"
    [] name = "FloydSteinberg" -> "FloydSteinbergDitherMethod"
    [] name = "Riemersma" -> "RiemersmaDitherMethod"
    [] OTHER -> "UndefinedDitherMethod"

\* The fields a page geometry string gives (WidthValue|HeightValue as
\* has_size, XValue|YValue as has_offset) and their values.
PageFields(page) ==
  CASE page = "8x8" ->
         [has_size |-> TRUE, size |-> <<8, 8>>,
          has_offset |-> FALSE, offset |-> <<0, 0>>]
    [] page = "+1+1" ->
         [has_size |-> FALSE, size |-> <<0, 0>>,
          has_offset |-> TRUE, offset |-> <<1, 1>>]
    [] page = "0x0+1+1" ->
         [has_size |-> TRUE, size |-> <<0, 0>>,
          has_offset |-> TRUE, offset |-> <<1, 1>>]
    [] page = "8x8+1+1" ->
         [has_size |-> TRUE, size |-> <<8, 8>>,
          has_offset |-> TRUE, offset |-> <<1, 1>>]
    [] page = "0x0" ->
         [has_size |-> TRUE, size |-> <<0, 0>>,
          has_offset |-> FALSE, offset |-> <<0, 0>>]
    [] OTHER ->
         [has_size |-> FALSE, size |-> <<0, 0>>,
          has_offset |-> FALSE, offset |-> <<0, 0>>]

\* ParseAbsoluteGeometry(page,&geometry): the fields the string gives
\* replace those of the geometry, the others stay.
ParseAbsoluteGeometry(page, geometry) ==
  [size |-> IF PageFields(page).has_size THEN PageFields(page).size
            ELSE geometry.size,
   offset |-> IF PageFields(page).has_offset THEN PageFields(page).offset
              ELSE geometry.offset]

\* A number as "%lu" prints it.
FormatUnsigned(n) ==
  CASE n = 0 -> "0" [] n = 1 -> "1" [] n = 8 -> "8" [] OTHER -> "?"

\* FormatLocaleString(page,...,"%lux%lu",...), or with "%+ld%+ld" appended
\* when the offsets are asked for.
FormatPage(geometry, offsets) ==
  FormatUnsigned(geometry.size[1]) \o "x" \o FormatUnsigned(geometry.size[2])
    \o (IF offsets
        THEN "+" \o FormatUnsigned(geometry.offset[1])
               \o "+" \o FormatUnsigned(geometry.offset[2])
        ELSE "")

AcquireImageInfo ==
  [options |-> [k \in OptionKeys |-> NULL],
   background_color |-> BackgroundColor,
   ping |-> FALSE,
   verbose |-> FALSE,
   adjoin |-> TRUE,
   dither |-> TRUE,
   page |-> NULL]

\* The draw defaults derived from a settings record: every field back to its
\* default, then the ones the settings record holds.
GetDrawInfo(info) ==
  [family |-> NULL,
   fill |-> IF GetImageOption(info, "fill") # NULL
               /\ IsColor(GetImageOption(info, "fill"))
            THEN QueryColorCompliance(GetImageOption(info, "fill"))
            ELSE "#000",
   fill_pattern |-> NULL,
   undercolor |-> IF GetImageOption(info, "undercolor") # NULL
                  THEN QueryColorCompliance(GetImageOption(info, "undercolor"))
                  ELSE "none"]

\* The quantize defaults derived from a settings record.
AcquireQuantizeInfo(info) ==
  [colorspace |-> "undefined",
   dither |-> info.dither,
   dither_method |-> IF ~info.dither THEN "NoDitherMethod"
                     ELSE IF GetImageOption(info, "dither") # NULL
                     THEN ParseDitherOption(GetImageOption(info, "dither"))
                     ELSE "RiemersmaDitherMethod"]

(* ------------------------------------------------------------ exceptions *)

\* The rank of a severity: warnings below errors below fatal errors, the
\* resource-limit member of each class at the bottom of its class.
Severity(name) ==
  CASE name = "UndefinedException" -> 0
    [] name = "WarningException" -> 300
    [] name = "ErrorException" -> 400
    [] name = "ResourceLimitError" -> 400
    [] name = "OptionError" -> 410
    [] name = "FileOpenError" -> 430
    [] name = "FatalErrorException" -> 700
    [] name = "ResourceLimitFatalError" -> 700

\* The sink accumulates: it keeps the gravest severity recorded.
ThrowMagickException(w, severity, reason) ==
  [w EXCEPT !.exception =
              IF Severity(severity) > Severity(@.severity)
              THEN [severity |-> severity] ELSE @,
            !.err = reason]

\* CatchException(exception): the records of the sink are reported and the
\* sink is cleared.
CatchException(w) ==
  [w EXCEPT !.exception = [severity |-> "UndefinedException"],
            !.reported = TRUE]

\* CatchExceptionStatus with the cut-off one rank low: errors block too.
CatchExceptionStatusFromError(w, all_exceptions) ==
  LET status == Severity(w.exception.severity) >= Severity("ErrorException")
  IN [(IF ~status \/ all_exceptions THEN CatchException(w) ELSE w)
        EXCEPT !.status = status]

\* The body of CLICatchException: the status is whether the sink's severity
\* is above ErrorException; the sink is reported and cleared unless the
\* status is true and not all exceptions were asked for.
CatchExceptionStatus(w, all_exceptions) ==
  LET status == Severity(w.exception.severity) > Severity("ErrorException")
  IN [(IF ~status \/ all_exceptions THEN CatchException(w) ELSE w)
        EXCEPT !.status = status]

\* ImagesMustBePresent as a recoverable exception thrown into the sink.
ImagesMustBePresentThrows(w) ==
  ThrowMagickException(w, "OptionError", "NoImagesFound")

\* assert(images != (Image *) NULL) at the head of a dispatcher, met with an
\* empty list: the process aborts there.
ImagesMustBePresent(w) == [w EXCEPT !.err = "AssertionFailed"]

(* ----------------------------------------------------------- image lists *)

\* An image: its handle (the identity of the Image object) and the source its
\* content comes from.
Image(h, src) == [h |-> h, src |-> src]

Handles(list) == {list[k].h : k \in 1..Len(list)}

\* Every Image object some list of the wand holds.
LiveHandles(w) ==
  Handles(w.images) \cup
  UNION {Handles(w.image_list_stack[k]) : k \in 1..Len(w.image_list_stack)}

\* The handle of a newly allocated Image: one no live image has.
NewHandle(used) ==
  CHOOSE h \in 1..(Cardinality(used) + 1) :
    h \notin used /\ \A g \in 1..(h - 1) : g \in used

\* New Image objects holding copies of the given images, in order.
RECURSIVE NewImages(_, _)
NewImages(list, used) ==
  IF list = <<>> THEN <<>>
  ELSE LET h == NewHandle(used)
       IN <<Image(h, Head(list).src)>>
            \o NewImages(Tail(list), used \cup {h})

\* AppendImageToList(&images,append) on the wand's list: a NULL list adopts
\* the appended one (and its pointer); otherwise the pointer stays.
AppendImageToList(w, append) ==
  IF append = <<>> THEN w
  ELSE IF w.images = <<>> THEN [w EXCEPT !.images = append, !.image_index = 1]
  ELSE [w EXCEPT !.images = @ \o append]

\* The images a scene argument selects from a list: "-1" the last, "0" the
\* first, "1" the second, "0--1" all of them; an index that names no image
\* selects nothing.
SceneIndexes(arg, length) ==
  LET want == CASE arg = "0" -> <<1>>
                [] arg = "1" -> <<2>>
                [] arg = "-1" -> <<length>>
                [] arg = "0--1" -> [k \in 1..length |-> k]
                [] OTHER -> <<>>
  IN SelectSeq(want, LAMBDA k : k >= 1 /\ k <= length)

IsSceneGeometry(arg) == arg \in {"0", "1", "-1", "0--1"}

\* CloneImages(images,scenes,exception): copies of the selected images.
CloneImages(list, arg, used) ==
  LET idx == SceneIndexes(arg, Len(list))
  IN NewImages([k \in 1..Len(idx) |-> list[idx[k]]], used)

\* ReadImages / PingImages: the images a source yields, newly allocated.
ReadImages(src, count, used) ==
  NewImages([k \in 1..count |-> Image(0, src)], used)

(* ---------------------------------------------------- CLISpecialOperator *)

\* PushSettings with the depth test off by one (> for >=).
PushSettingsLate(w, mem) ==
  IF Len(w.image_info_stack) > MAX_STACK_DEPTH
  THEN ThrowMagickException(w, "OptionError", "ParenthesisNestedTooDeeply")
  ELSE IF mem \in {"info_node", "info_clone"}
  THEN ThrowMagickException(w, "ResourceLimitFatalError", "MemoryAllocationFailed")
  ELSE [w EXCEPT !.image_info_stack = <<w.image_info>> \o @,
                 !.image_info = CloneImageInfo(w.image_info)]

\* The "{" branch: push the settings record, adopt a clone of it.
PushSettings(w, mem) ==
  IF Len(w.image_info_stack) >= MAX_STACK_DEPTH
  THEN ThrowMagickException(w, "OptionError", "ParenthesisNestedTooDeeply")
  ELSE IF mem \in {"info_node", "info_clone"}
  THEN ThrowMagickException(w, "ResourceLimitFatalError", "MemoryAllocationFailed")
  ELSE [w EXCEPT !.image_info_stack = <<w.image_info>> \o @,
                 !.image_info = CloneImageInfo(w.image_info)]

\* PushImages with the depth test off by one (> for >=).
PushImagesLate(w, mem) ==
  IF Len(w.image_list_stack) > MAX_STACK_DEPTH
  THEN ThrowMagickException(w, "OptionError", "ParenthesisNestedTooDeeply")
  ELSE IF mem = "list_node"
  THEN ThrowMagickException(w, "ResourceLimitFatalError", "MemoryAllocationFailed")
  ELSE LET pushed == [w EXCEPT !.image_list_stack = <<w.images>> \o @,
                               !.images = <<>>,
                               !.image_index = 0]
       IN IF GetImageOption(pushed.image_info, "respect-parenthesis") # NULL
          THEN PushSettings([pushed EXCEPT !.entry = "{"], mem)
          ELSE pushed

\* PushImages going on to the settings push whatever the toggle.
PushImagesAlways(w, mem) ==
  IF Len(w.image_list_stack) >= MAX_STACK_DEPTH
  THEN ThrowMagickException(w, "OptionError", "ParenthesisNestedTooDeeply")
  ELSE IF mem = "list_node"
  THEN ThrowMagickException(w, "ResourceLimitFatalError", "MemoryAllocationFailed")
  ELSE LET pushed == [w EXCEPT !.image_list_stack = <<w.images>> \o @,
                               !.images = <<>>,
                               !.image_index = 0]
       IN PushSettings([pushed EXCEPT !.entry = "{"], mem)

\* The "(" branch: push the image list, then the settings when the toggle is
\* set in the settings now active.
PushImages(w, mem) ==
  IF Len(w.image_list_stack) >= MAX_STACK_DEPTH
  THEN ThrowMagickException(w, "OptionError", "ParenthesisNestedTooDeeply")
  ELSE IF mem = "list_node"
  THEN ThrowMagickException(w, "ResourceLimitFatalError", "MemoryAllocationFailed")
  ELSE LET pushed == [w EXCEPT !.image_list_stack = <<w.images>> \o @,
                               !.images = <<>>,
                               !.image_index = 0]
       IN IF GetImageOption(pushed.image_info, "respect-parenthesis") # NULL
          THEN PushSettings([pushed EXCEPT !.entry = "{"], mem)
          ELSE pushed

\* PopSettings re-deriving the draw and quantize defaults before it tests
\* for an empty stack.
PopSettingsResetFirst(w) ==
  IF w.image_info_stack = <<>>
  THEN ThrowMagickException(
         [w EXCEPT !.draw_info = GetDrawInfo(w.image_info),
                   !.quantize_info = AcquireQuantizeInfo(w.image_info)],
         "OptionError", "UnbalancedParenthesis")
  ELSE LET info == Head(w.image_info_stack)
       IN [w EXCEPT !.image_info_stack = Tail(@),
                    !.image_info = info,
                    !.draw_info = GetDrawInfo(info),
                    !.quantize_info = AcquireQuantizeInfo(info)]

\* PopSettings handing back the record in use, as it would if the saved
\* record and the current one were the same record.
PopSettingsKeepCurrent(w) ==
  IF w.image_info_stack = <<>>
  THEN ThrowMagickException(w, "OptionError", "UnbalancedParenthesis")
  ELSE LET info == w.image_info
       IN [w EXCEPT !.image_info_stack = Tail(@),
                    !.image_info = info,
                    !.draw_info = GetDrawInfo(info),
                    !.quantize_info = AcquireQuantizeInfo(info)]

\* The "}" branch: restore the saved settings record, re-derive the draw and
\* quantize defaults from it.
PopSettings(w) ==
  IF w.image_info_stack = <<>>
  THEN ThrowMagickException(w, "OptionError", "UnbalancedParenthesis")
  ELSE LET info == Head(w.image_info_stack)
       IN [w EXCEPT !.image_info_stack = Tail(@),
                    !.image_info = info,
                    !.draw_info = GetDrawInfo(info),
                    !.quantize_info = AcquireQuantizeInfo(info)]

\* PopImages with the two lists joined the wrong way round: the saved list
\* appended to the current one.
PopImagesPrepend(w) ==
  IF w.image_list_stack = <<>>
  THEN ThrowMagickException(w, "OptionError", "UnbalancedParenthesis")
  ELSE LET saved == Head(w.image_list_stack)
           popped == [w EXCEPT !.image_list_stack = Tail(@),
                               !.images = w.images \o saved,
                               !.image_index =
                                 IF w.images = <<>> /\ saved # <<>>
                                 THEN 1 ELSE w.image_index]
       IN IF popped.image_info_stack # <<>>
             /\ GetImageOption(Head(popped.image_info_stack),
                               "respect-parenthesis") # NULL
          THEN PopSettings([popped EXCEPT !.entry = "}"])
          ELSE popped

\* PopImages reading the toggle from the settings in use.
PopImagesActiveToggle(w) ==
  IF w.image_list_stack = <<>>
  THEN ThrowMagickException(w, "OptionError", "UnbalancedParenthesis")
  ELSE LET saved == Head(w.image_list_stack)
           popped == [w EXCEPT !.image_list_stack = Tail(@),
                               !.images = saved \o w.images,
                               !.image_index =
                                 IF saved = <<>> THEN w.image_index ELSE 1]
       IN IF popped.image_info_stack # <<>>
             /\ GetImageOption(popped.image_info, "respect-parenthesis") # NULL
          THEN PopSettings([popped EXCEPT !.entry = "}"])
          ELSE popped

\* The ")" branch: append the current list to the saved one and adopt it, then
\* pop the settings when the record on top of the settings stack has the toggle.
PopImages(w) ==
  IF w.image_list_stack = <<>>
  THEN ThrowMagickException(w, "OptionError", "UnbalancedParenthesis")
  ELSE LET saved == Head(w.image_list_stack)
           popped == [w EXCEPT !.image_list_stack = Tail(@),
                               !.images = saved \o w.images,
                               !.image_index =
                                 IF saved = <<>> THEN w.image_index ELSE 1]
       IN IF popped.image_info_stack # <<>>
             /\ GetImageOption(Head(popped.image_info_stack),
                               "respect-parenthesis") # NULL
          THEN PopSettings([popped EXCEPT !.entry = "}"])
          ELSE popped

\* CloneOperator appending the selected images themselves, not copies of them.
CloneOperatorShare(w, sigil, arg0) ==
  LET arg == IF sigil = "+" THEN "-1" ELSE arg0
  IN IF ~IsSceneGeometry(arg)
     THEN ThrowMagickException(w, "OptionError", "InvalidArgument")
     ELSE IF w.image_list_stack = <<>>
     THEN ThrowMagickException(w, "OptionError", "UnableToCloneImage")
     ELSE IF Head(w.image_list_stack) = <<>>
     THEN ThrowMagickException(w, "OptionError", "UnableToCloneImage")
     ELSE LET saved == Head(w.image_list_stack)
              idx == SceneIndexes(arg, Len(saved))
              new_images == [k \in 1..Len(idx) |-> saved[idx[k]]]
          IN IF new_images = <<>>
             THEN ThrowMagickException(w, "OptionError", "NoSuchImage")
             ELSE AppendImageToList(w, new_images)

\* CloneOperator whose "+" form selects the first saved image.
CloneOperatorPlusFirst(w, sigil, arg0) ==
  LET arg == IF sigil = "+" THEN "0" ELSE arg0
  IN IF ~IsSceneGeometry(arg)
     THEN ThrowMagickException(w, "OptionError", "InvalidArgument")
     ELSE IF w.image_list_stack = <<>>
     THEN ThrowMagickException(w, "OptionError", "UnableToCloneImage")
     ELSE IF Head(w.image_list_stack) = <<>>
     THEN ThrowMagickException(w, "OptionError", "UnableToCloneImage")
     ELSE LET new_images == CloneImages(Head(w.image_list_stack), arg,
                                        LiveHandles(w))
          IN IF new_images = <<>>
             THEN ThrowMagickException(w, "OptionError", "NoSuchImage")
             ELSE AppendImageToList(w, new_images)

\* CloneOperator falling back on the current list when no list is saved.
CloneOperatorFromCurrent(w, sigil, arg0) ==
  LET arg == IF sigil = "+" THEN "-1" ELSE arg0
      source == IF w.image_list_stack = <<>> THEN w.images
                ELSE Head(w.image_list_stack)
  IN IF ~IsSceneGeometry(arg)
     THEN ThrowMagickException(w, "OptionError", "InvalidArgument")
     ELSE IF source = <<>>
     THEN ThrowMagickException(w, "OptionError", "UnableToCloneImage")
     ELSE LET new_images == CloneImages(source, arg, LiveHandles(w))
          IN IF new_images = <<>>
             THEN ThrowMagickException(w, "OptionError", "NoSuchImage")
             ELSE AppendImageToList(w, new_images)

\* The "clone" branch: copies of images of the list saved on top of the stack,
\* appended to the current list.
CloneOperator(w, sigil, arg0) ==
  LET arg == IF sigil = "+" THEN "-1" ELSE arg0
  IN IF ~IsSceneGeometry(arg)
     THEN ThrowMagickException(w, "OptionError", "InvalidArgument")
     ELSE IF w.image_list_stack = <<>>
     THEN ThrowMagickException(w, "OptionError", "UnableToCloneImage")
     ELSE IF Head(w.image_list_stack) = <<>>
     THEN ThrowMagickException(w, "OptionError", "UnableToCloneImage")
     ELSE LET new_images == CloneImages(Head(w.image_list_stack), arg,
                                        LiveHandles(w))
          IN IF new_images = <<>>
             THEN ThrowMagickException(w, "OptionError", "NoSuchImage")
             ELSE AppendImageToList(w, new_images)

\* ReadOperator that always decodes in full.
ReadOperatorNoPing(w, arg, count) ==
  [AppendImageToList(w, ReadImages(arg, count, LiveHandles(w)))
     EXCEPT !.entry = "ReadImages"]

\* The "read" branch: the images loaded by PingImages when the ping flag of
\* the settings is set and by ReadImages otherwise, appended to the current
\* list.
ReadOperator(w, arg, count) ==
  [AppendImageToList(w, ReadImages(arg, count, LiveHandles(w)))
     EXCEPT !.entry = IF w.image_info.ping THEN "PingImages"
                      ELSE "ReadImages"]

\* CLISpecialOperator(cli_wand,option,arg). option is the whole option string
\* for the grouping options and the name after the sigil otherwise; mem names
\* the allocation that fails, count the images the source yields.
SpecialOperator(w, sigil, option, arg, mem, count) ==
  CASE option = "(" -> PushImages(w, mem)
    [] option = "{" -> PushSettings(w, mem)
    [] option = ")" -> PopImages(w)
    [] option = "}" -> PopSettings(w)
    [] option = "clone" -> CloneOperator(w, sigil, arg)
    [] option = "read" -> ReadOperator(w, arg, count)
    [] OTHER -> w

(* -------------------------------------------------- CLISettingOptionInfo *)

\* #define ArgOption(def) (IfSetOption?arg:(const char *)(def))
ArgOption(sigil, arg, def) == IF sigil = "-" THEN arg ELSE def

\* #define ArgBoolean (IfSetOption?MagickTrue:MagickFalse)
ArgBoolean(sigil) == sigil = "-"

\* assert(image != (Image *) NULL) at the head of DestroyImage, met with a
\* NULL image: the process aborts where assertions are compiled in, and
\* reads through the NULL pointer where they are not.
DestroyNullImage(w, asserts) ==
  [w EXCEPT !.err = IF asserts THEN "AssertionFailed" ELSE "SegmentationFault"]

\* The "page" branch with "-": the geometry starts from the page option held
\* now, the argument's fields replace it, and the offsets are printed when
\* the argument gives any.
PageOption(w, arg) ==
  LET zero == [size |-> <<0, 0>>, offset |-> <<0, 0>>]
      image_option == GetImageOption(w.image_info, "page")
      held == IF image_option # NULL
              THEN ParseAbsoluteGeometry(image_option, zero)
              ELSE zero
      geometry == ParseAbsoluteGeometry(arg, held)
      page == FormatPage(geometry, PageFields(arg).has_offset)
  IN [w EXCEPT !.image_info =
        [SetImageOption(@, "page", page) EXCEPT !.page = page]]

\* The image files that exist and can be read.
ImageFiles == {"a", "pat"}

\* ReadImage(read_info,exception): the image a path loads, or NULL.
ReadImage(path) == IF path \in ImageFiles THEN path ELSE NULL

\* GetImageCache(image_info,path,exception): the image the cache holds under
\* the path, read into the cache when it is not there yet; a path that
\* cannot be read gives NULL, and what ReadImage throws goes to the sink.
GetImageCache(w, path) ==
  LET image == ReadImage(path)
  IN [image |-> image,
      w |-> IF image = NULL
            THEN ThrowMagickException(w, "FileOpenError", "UnableToOpenFile")
            ELSE w]

\* The "tile" branch: "-" loads the fill pattern, "+" destroys the one held.
TileOption(w, sigil, arg, asserts) ==
  IF sigil = "-"
  THEN LET got == GetImageCache(w, arg)
       IN [got.w EXCEPT !.draw_info.fill_pattern = got.image]
  ELSE IF w.draw_info.fill_pattern = NULL
  THEN DestroyNullImage(w, asserts)
  ELSE [w EXCEPT !.draw_info.fill_pattern = NULL]

\* The "fill" branch: the value is a color or names a pattern image.
FillOption(w, sigil, arg) ==
  LET value == ArgOption(sigil, arg, "none")
      set == [w EXCEPT !.image_info = SetImageOption(@, "fill", value),
                       !.draw_info.fill_pattern = NULL]
  IN IF ~IsColor(value)
     THEN LET got == GetImageCache(set, value)
          IN [got.w EXCEPT !.draw_info.fill_pattern = got.image]
     ELSE [set EXCEPT !.draw_info.fill = QueryColorCompliance(value)]

\* The "dither" branch.
DitherOption(w, sigil, arg) ==
  LET method == ParseDitherOption(ArgOption(sigil, arg, "none"))
      on == ArgBoolean(sigil) /\ method # "NoDitherMethod"
  IN [w EXCEPT !.image_info =
                 [SetImageOption(@, "dither", ArgOption(sigil, arg, "none"))
                    EXCEPT !.dither = on],
               !.quantize_info.dither = on,
               !.quantize_info.dither_method = method]

\* VerboseOption leaving the ping flag as it is.
VerboseOptionKeepPing(w, sigil, arg) ==
  [w EXCEPT !.image_info =
              [SetImageOption(@, "verbose", ArgOption(sigil, arg, NULL))
                 EXCEPT !.verbose = ArgBoolean(sigil)]]

\* The "verbose" branch: the option, the flag, and the ping flag cleared.
VerboseOption(w, sigil, arg) ==
  [w EXCEPT !.image_info =
              [SetImageOption(@, "verbose", ArgOption(sigil, arg, NULL))
                 EXCEPT !.verbose = ArgBoolean(sigil), !.ping = FALSE]]

\* CLISettingOptionInfo(cli_wand,option,arg): sigil is the option's first
\* character, option the name that follows it; asserts tells whether the
\* build has its assertions compiled in.
RECURSIVE SettingOptionInfo(_, _, _, _, _)
SettingOptionInfo(w, sigil, option, arg, asserts) ==
  CASE option = "adjoin" ->
         [w EXCEPT !.image_info.adjoin = ArgBoolean(sigil)]
    [] option = "background" ->
         [w EXCEPT !.image_info =
            [SetImageOption(@, option, ArgOption(sigil, arg, NULL))
               EXCEPT !.background_color =
                 QueryColorCompliance(ArgOption(sigil, arg, BackgroundColor))]]
    [] option = "box" ->
         \* CLISettingOptionInfo(cli_wand,"undercolor",arg): the option string
         \* handed on has no sigil, so its first character stands for one.
         SettingOptionInfo(w, "u", "ndercolor", arg, asserts)
    [] option = "dither" -> DitherOption(w, sigil, arg)
    [] option = "family" ->
         [w EXCEPT !.draw_info.family = ArgOption(sigil, arg, NULL)]
    [] option = "fill" -> FillOption(w, sigil, arg)
    [] option = "page" ->
         IF sigil # "-"
         THEN [w EXCEPT !.image_info =
                 [DeleteImageOption(@, option) EXCEPT !.page = NULL]]
         ELSE PageOption(w, arg)
    [] option = "ping" ->
         [w EXCEPT !.image_info.ping = ArgBoolean(sigil)]
    [] option = "quantize" ->
         [w EXCEPT !.quantize_info.colorspace =
            IF sigil = "-" THEN arg ELSE "undefined"]
    [] option = "respect-parenthesis" ->
         [w EXCEPT !.image_info =
            SetImageOption(@, option, ArgOption(sigil, arg, NULL))]
    [] option = "tile" -> TileOption(w, sigil, arg, asserts)
    [] option = "undercolor" ->
         [w EXCEPT !.image_info =
            SetImageOption(@, option, ArgOption(sigil, arg, NULL)),
                   !.draw_info.undercolor =
            QueryColorCompliance(ArgOption(sigil, arg, "none"))]
    [] option = "verbose" -> VerboseOption(w, sigil, arg)
    [] OTHER -> w

(* ----------------------------------------------------- SparseColorOption *)

\* isalpha((int) token[0]) || token[0] == '#', for the characters used here.
Letters == {"r", "e", "d", "f"}

IsColorToken(token) ==
  token # <<>> /\ (token[1] \in Letters \/ token[1] = "#")

\* The end of the token that starts at p: the place of the next comma, or
\* one past the end of the string.
RECURSIVE TokenEnd(_, _)
TokenEnd(s, p) ==
  IF p > Len(s) \/ s[p] = "," THEN p ELSE TokenEnd(s, p + 1)

\* GetMagickToken(p,&p,token) on a string of characters: a comma is a token
\* of its own, any other token runs up to the next comma; at the end of the
\* string the token is empty.
GetMagickToken(s, p) ==
  IF p > Len(s) THEN [token |-> <<>>, next |-> p]
  ELSE IF s[p] = "," THEN [token |-> <<",">>, next |-> p + 1]
  ELSE [token |-> SubSeq(s, p, TokenEnd(s, p) - 1), next |-> TokenEnd(s, p)]

\* token[0]=','; while ( token[0] == ',' ) GetMagickToken(p,&p,token);
RECURSIVE NextToken(_, _)
NextToken(s, p) ==
  LET t == GetMagickToken(s, p)
  IN IF t.token = <<",">> THEN NextToken(s, t.next) ELSE t

DigitValue(c) ==
  CASE c = "0" -> 0 [] c = "1" -> 1 [] c = "2" -> 2 [] c = "3" -> 3
    [] c = "4" -> 4 [] c = "5" -> 5 [] c = "6" -> 6 [] c = "7" -> 7
    [] c = "8" -> 8 [] c = "9" -> 9 [] OTHER -> 0

\* StringToDouble(token,NULL) on a token of decimal digits.
RECURSIVE StringToDouble(_)
StringToDouble(token) ==
  IF token = <<>> THEN 0
  ELSE 10 * StringToDouble(SubSeq(token, 1, Len(token) - 1))
         + DigitValue(token[Len(token)])

\* The channels with the update trait, in the order the code tests them,
\* for an image with number_colors of them: gray, gray with alpha, RGB,
\* RGB with alpha, CMYK with alpha.
ChannelsOf(number_colors) ==
  CASE number_colors = 1 -> <<"red">>
    [] number_colors = 2 -> <<"red", "alpha">>
    [] number_colors = 3 -> <<"red", "green", "blue">>
    [] number_colors = 4 -> <<"red", "green", "blue", "alpha">>
    [] OTHER -> <<"red", "green", "blue", "black", "alpha">>

\* QuantumScale*color.<channel> of the color QueryColorCompliance gives for a
\* color token.
ColorValue(token, channel) ==
  CASE token = <<"r", "e", "d">> ->
         (IF channel \in {"red", "alpha"} THEN 1 ELSE 0)
    [] token = <<"#", "0", "0", "f", "f", "0", "0">> ->
         (IF channel \in {"green", "alpha"} THEN 1 ELSE 0)
    [] OTHER -> (IF channel = "alpha" THEN 1 ELSE 0)

\* CountArguments with every token counted once.
RECURSIVE CountArgumentsFlat(_, _, _)
CountArgumentsFlat(s, p, number_colors) ==
  IF p > Len(s) THEN 0
  ELSE LET t == GetMagickToken(s, p)
       IN IF t.token = <<",">>
          THEN CountArgumentsFlat(s, t.next, number_colors)
          ELSE 1 + CountArgumentsFlat(s, t.next, number_colors)

\* Pass 1: the number of arguments the string asks for, number_colors for a
\* color token and one for any other token that is not a comma.
RECURSIVE CountArguments(_, _, _)
CountArguments(s, p, number_colors) ==
  IF p > Len(s) THEN 0
  ELSE LET t == GetMagickToken(s, p)
       IN IF t.token = <<",">> THEN CountArguments(s, t.next, number_colors)
          ELSE (IF IsColorToken(t.token) THEN number_colors ELSE 1)
                 + CountArguments(s, t.next, number_colors)

\* FillChannels storing every channel of a color token met where the number
\* of one channel is expected, and going on.
RECURSIVE FillChannelsTakeColor(_, _, _, _, _, _)
FillChannelsTakeColor(s, p, out, token, k, channels) ==
  IF k > Len(channels) THEN [p |-> p, out |-> out, broke |-> FALSE]
  ELSE LET t == IF token = <<",">> THEN NextToken(s, p)
                ELSE [token |-> token, next |-> p]
       IN IF t.token = <<>>
          THEN [p |-> t.next, out |-> out, broke |-> TRUE]
          ELSE IF IsColorToken(t.token)
          THEN FillChannelsTakeColor(s, t.next,
                 out \o [j \in 1..Len(channels) |->
                           ColorValue(t.token, channels[j])],
                 <<",">>, k + 1, channels)
          ELSE FillChannelsTakeColor(s, t.next,
                 Append(out, StringToDouble(t.token)),
                 <<",">>, k + 1, channels)

\* Pass 2, the channel values of a color given as numbers: one number per
\* channel; token is the token in hand, a comma when the next one is still
\* to be read. broke tells that the fill loop was left.
RECURSIVE FillChannels(_, _, _, _, _, _)
FillChannels(s, p, out, token, k, channels) ==
  IF k > Len(channels) THEN [p |-> p, out |-> out, broke |-> FALSE]
  ELSE LET t == IF token = <<",">> THEN NextToken(s, p)
                ELSE [token |-> token, next |-> p]
       IN IF t.token = <<>> \/ IsColorToken(t.token)
          THEN [p |-> t.next, out |-> out, broke |-> TRUE]
          ELSE FillChannels(s, t.next, Append(out, StringToDouble(t.token)),
                            <<",">>, k + 1, channels)

\* What the fill loop hands back when it is left in the turn at hand.
Left(out, error, why) ==
  [out |-> out, error |-> error, why |-> why, starts |-> <<>>]

\* FillArguments taking a color where the x coordinate is expected as the
\* coordinate 0.
RECURSIVE FillArgumentsColorAsX(_, _, _, _, _)
FillArgumentsColorAsX(s, p, out, channels, number_arguments) ==
  IF p > Len(s) \/ Len(out) >= number_arguments
  THEN Left(out, FALSE, NULL)
  ELSE
  LET tx == NextToken(s, p)
      outx == Append(out, IF IsColorToken(tx.token) THEN 0
                          ELSE StringToDouble(tx.token))
      ty == NextToken(s, tx.next)
      outy == Append(outx, StringToDouble(ty.token))
      tc == NextToken(s, ty.next)
      filled == FillChannels(s, tc.next, outy, tc.token, 1, channels)
  IN [(IF tx.token = <<>> THEN Left(out, FALSE, NULL)
       ELSE IF ty.token = <<>>
       THEN Left(outx, FALSE, NULL)
       ELSE IF IsColorToken(ty.token)
       THEN Left(outx, TRUE,
                 "Color found, instead of Y-coord")
       ELSE IF tc.token = <<>>
       THEN Left(outy, FALSE, NULL)
       ELSE IF IsColorToken(tc.token)
       THEN FillArgumentsColorAsX(s, tc.next,
            outy \o [k \in 1..Len(channels) |->
                       ColorValue(tc.token, channels[k])],
            channels, number_arguments)
       ELSE IF filled.broke
       THEN Left(filled.out, FALSE, NULL)
       ELSE FillArgumentsColorAsX(s, filled.p, filled.out, channels,
                                number_arguments))
       EXCEPT !.starts = <<Len(out)>> \o @]

\* FillArguments with a color token always worth three values.
RECURSIVE FillArgumentsThree(_, _, _, _, _)
FillArgumentsThree(s, p, out, channels, number_arguments) ==
  IF p > Len(s) \/ Len(out) >= number_arguments
  THEN Left(out, FALSE, NULL)
  ELSE
  LET tx == NextToken(s, p)
      outx == Append(out, StringToDouble(tx.token))
      ty == NextToken(s, tx.next)
      outy == Append(outx, StringToDouble(ty.token))
      tc == NextToken(s, ty.next)
      filled == FillChannels(s, tc.next, outy, tc.token, 1, channels)
      rgb == <<"red", "green", "blue">>
  IN [(IF tx.token = <<>> THEN Left(out, FALSE, NULL)
       ELSE IF IsColorToken(tx.token)
       THEN Left(out, TRUE,
                 "Color found, instead of X-coord")
       ELSE IF ty.token = <<>>
       THEN Left(outx, FALSE, NULL)
       ELSE IF IsColorToken(ty.token)
       THEN Left(outx, TRUE,
                 "Color found, instead of Y-coord")
       ELSE IF tc.token = <<>>
       THEN Left(outy, FALSE, NULL)
       ELSE IF IsColorToken(tc.token)
       THEN FillArgumentsThree(s, tc.next,
            outy \o [k \in 1..3 |-> ColorValue(tc.token, rgb[k])],
            channels, number_arguments)
       ELSE IF filled.broke
       THEN Left(filled.out, FALSE, NULL)
       ELSE FillArgumentsThree(s, filled.p, filled.out, channels,
                             number_arguments))
       EXCEPT !.starts = <<Len(out)>> \o @]

\* Pass 2: the fill loop. Each turn reads an x coordinate, a y coordinate
\* and a color, given as one color token or as one number per channel; out
\* is what was stored so far (x is its length), error tells that a color
\* stood where a coordinate was expected, starts lists the value of x at
\* the head of each turn.
RECURSIVE FillArguments(_, _, _, _, _)
FillArguments(s, p, out, channels, number_arguments) ==
  IF p > Len(s) \/ Len(out) >= number_arguments
  THEN Left(out, FALSE, NULL)
  ELSE
  LET tx == NextToken(s, p)
      outx == Append(out, StringToDouble(tx.token))
      ty == NextToken(s, tx.next)
      outy == Append(outx, StringToDouble(ty.token))
      tc == NextToken(s, ty.next)
      filled == FillChannels(s, tc.next, outy, tc.token, 1, channels)
  IN [(IF tx.token = <<>> THEN Left(out, FALSE, NULL)
       ELSE IF IsColorToken(tx.token)
       THEN Left(out, TRUE,
                 "Color found, instead of X-coord")
       ELSE IF ty.token = <<>>
       THEN Left(outx, FALSE, NULL)
       ELSE IF IsColorToken(ty.token)
       THEN Left(outx, TRUE,
                 "Color found, instead of Y-coord")
       ELSE IF tc.token = <<>>
       THEN Left(outy, FALSE, NULL)
       ELSE IF IsColorToken(tc.token)
       THEN FillArguments(s, tc.next,
            outy \o [k \in 1..Len(channels) |->
                       ColorValue(tc.token, channels[k])],
            channels, number_arguments)
       ELSE IF filled.broke
       THEN Left(filled.out, FALSE, NULL)
       ELSE FillArguments(s, filled.p, filled.out, channels, number_arguments))
       EXCEPT !.starts = <<Len(out)>> \o @]

\* The locals of SparseColorOption at its entry: held tells that the
\* argument array is allocated and not yet released, called that
\* SparseColorImage was called, passed the array it was given, starts the
\* values x had at the head of each turn of the fill loop.
ParseStart(arguments, number_colors) ==
  [pc |-> "start", arguments |-> arguments, number_colors |-> number_colors,
   number_arguments |-> 0, sparse_arguments |-> <<>>, x |-> 0,
   error |-> FALSE, why |-> NULL, held |-> FALSE, called |-> FALSE,
   passed |-> <<>>, returned |-> "pending", starts |-> <<>>]

\* CountPass testing the count against number_colors alone.
CountPassPerColor(q) ==
  LET x == CountArguments(q.arguments, 1, q.number_colors)
      error == x % q.number_colors # 0
  IN IF error
     THEN [q EXCEPT !.pc = "returned", !.x = x, !.number_arguments = x,
                    !.error = TRUE, !.why = "Invalid number of Arguments",
                    !.returned = "NULL"]
     ELSE [q EXCEPT !.pc = "counted", !.x = x, !.number_arguments = x]

\* Up to the count test: the count of pass 1 and, if it is no multiple of
\* 2+number_colors, the return with no image.
CountPass(q) ==
  LET x == CountArguments(q.arguments, 1, q.number_colors)
      error == x % (2 + q.number_colors) # 0
  IN IF error
     THEN [q EXCEPT !.pc = "returned", !.x = x, !.number_arguments = x,
                    !.error = TRUE, !.why = "Invalid number of Arguments",
                    !.returned = "NULL"]
     ELSE [q EXCEPT !.pc = "counted", !.x = x, !.number_arguments = x]

\* The allocation of the argument array, zeroed; mem tells whether
\* AcquireQuantumMemory fails.
AllocatePass(q, mem) ==
  IF mem # "none"
  THEN [q EXCEPT !.pc = "returned", !.why = "MemoryAllocationFailed",
                 !.returned = "NULL"]
  ELSE [q EXCEPT !.pc = "allocated", !.held = TRUE, !.x = 0,
                 !.sparse_arguments = [k \in 1..q.number_arguments |-> 0]]

\* From the fill loop to the return: the array is released and no image
\* returned when it was filled short; no image is returned when a color
\* stood for a coordinate; otherwise SparseColorImage is called with the
\* array (ok: it makes an image) and the array is released.
FillPass(q, ok) ==
  LET f == FillArguments(q.arguments, 1, <<>>, ChannelsOf(q.number_colors),
                         q.number_arguments)
      x == Len(f.out)
      array == [k \in 1..q.number_arguments |->
                  IF k <= x THEN f.out[k] ELSE 0]
      filled == [q EXCEPT !.pc = "returned", !.x = x,
                          !.sparse_arguments = array, !.error = f.error,
                          !.why = f.why, !.starts = f.starts]
  IN IF q.number_arguments # x /\ ~f.error
     THEN [filled EXCEPT !.why = "Argument Parsing Error", !.held = FALSE,
                         !.returned = "NULL"]
     ELSE IF f.error
     THEN [filled EXCEPT !.returned = "NULL"]
     ELSE [filled EXCEPT !.called = TRUE, !.passed = array, !.held = FALSE,
                         !.returned = IF ok THEN "image" ELSE "NULL"]

(* ----------------------------------------------- CLISimpleOperatorImages *)

\* ReplaceImageInListReturnLast(&image,new_image): the image the wand points
\* at gives its place to the replacement and is destroyed; the wand then
\* points at the last image of the replacement.
ReplaceImageInListReturnLast(w, new_image) ==
  [w EXCEPT !.images = SubSeq(@, 1, w.image_index - 1) \o new_image
                         \o SubSeq(@, w.image_index + 1, Len(@)),
            !.image_index = w.image_index + Len(new_image) - 1]

\* SyncImageSettings(image_info,image,exception) and
\* SyncImagesSettings(image_info,images,exception): the attributes of the
\* image (of every image of the list) are set from the settings; the wand
\* counts the calls.
SyncImageSettings(w) == [w EXCEPT !.syncs = @ + 1]

\* The handler's entry: the image the wand points at is the one it works on.
EnterHandler(w) == [w EXCEPT !.seen = Append(@, w.images[w.image_index].h)]

\* ParseGeometry(arg,&geometry_info) on "rho", "rho,sigma", "rhoxsigma",
\* "xsigma" or "rhoxsigma+xi": the numbers, zero where none is given, and
\* whether sigma and xi were given.
Geometry(rho, sigma, xi, SigmaValue, XiValue) ==
  [rho |-> rho, sigma |-> sigma, xi |-> xi, SigmaValue |-> SigmaValue,
   XiValue |-> XiValue]

ParseGeometry(arg) ==
  CASE arg = "0,1" -> Geometry(0, 1, 0, TRUE, FALSE)
    [] arg = "0,5" -> Geometry(0, 5, 0, TRUE, FALSE)
    [] arg = "0,0" -> Geometry(0, 0, 0, TRUE, FALSE)
    [] arg = "0" -> Geometry(0, 0, 0, FALSE, FALSE)
    [] arg = "1" -> Geometry(1, 0, 0, FALSE, FALSE)
    [] arg = "3" -> Geometry(3, 0, 0, FALSE, FALSE)
    [] arg = "3x2" -> Geometry(3, 2, 0, TRUE, FALSE)
    [] arg = "x2" -> Geometry(0, 2, 0, TRUE, FALSE)
    [] arg = "3x2+1" -> Geometry(3, 2, 1, TRUE, TRUE)
    [] OTHER -> Geometry(0, 0, 0, FALSE, FALSE)

\* The per-image options of the blur family and the transform each calls.
BlurFamily == {"adaptive-blur", "adaptive-sharpen", "blur", "sharpen"}

BlurTransform(option) ==
  CASE option = "adaptive-blur" -> "AdaptiveBlurImage"
    [] option = "adaptive-sharpen" -> "AdaptiveSharpenImage"
    [] option = "blur" -> "BlurImage"
    [] OTHER -> "SharpenImage"

\* BlurGeometry with a sigma that is not given taken from rho.
BlurGeometrySigmaFromRho(arg1) ==
  LET geometry_info == ParseGeometry(arg1)
  IN [rho |-> geometry_info.rho,
      sigma |-> IF ~geometry_info.SigmaValue THEN geometry_info.rho
                ELSE geometry_info.sigma,
      xi |-> IF ~geometry_info.XiValue THEN 0 ELSE geometry_info.xi]

\* The geometry a blur-family branch hands to its transform: the argument
\* parsed, sigma 1.0 and xi 0.0 where the argument gives none.
BlurGeometry(arg1) ==
  LET geometry_info == ParseGeometry(arg1)
  IN [rho |-> geometry_info.rho,
      sigma |-> IF ~geometry_info.SigmaValue THEN 1
                ELSE geometry_info.sigma,
      xi |-> IF ~geometry_info.XiValue THEN 0 ELSE geometry_info.xi]

\* A blur-family branch: the transform is called with the geometry.
BlurOption(w, option) ==
  LET geometry_info == BlurGeometry(w.arg1)
  IN [w EXCEPT !.call = [name |-> BlurTransform(option),
                         rho |-> geometry_info.rho,
                         sigma |-> geometry_info.sigma,
                         xi |-> geometry_info.xi]]

\* SparseColorOption(image,method,arguments,exception), as far as the sink
\* goes: outcome names the way it ends ("ok", or the reason it throws).
SparseColorOption(w, outcome) ==
  CASE outcome = "InvalidArgument" ->
         ThrowMagickException(w, "OptionError", "InvalidArgument")
    [] outcome = "MemoryAllocationFailed" ->
         ThrowMagickException(w, "ResourceLimitError", "MemoryAllocationFailed")
    [] OTHER -> w

\* What the branch of a per-image option leaves behind before its transform
\* hands back an image: an exception in the sink, the call it made.
TransformThrows(w, option, produced) ==
  IF option = "sparse-color" THEN SparseColorOption(w, produced)
  ELSE IF option \in BlurFamily THEN BlurOption(w, option)
  ELSE w

\* What the transform behind a per-image option hands back for one image:
\* "negate" works in place, "resize" and the blur family yield one new
\* image, "crop" yields
\* `produced` tiles, "sparse-color" one new image when its outcome is "ok";
\* produced = 0 is a transform that failed.
TransformImage(w, option, produced) ==
  LET image == w.images[w.image_index]
      copies == IF option = "negate" THEN 0
                ELSE IF option = "sparse-color"
                THEN (IF produced = "ok" THEN 1 ELSE 0)
                ELSE IF option \in {"resize"} \cup BlurFamily /\ produced > 0
                THEN 1
                ELSE produced
  IN NewImages([k \in 1..copies |-> Image(0, image.src)], LiveHandles(w))

\* SimpleOperatorImage replacing with ReplaceImageInList, which leaves the wand
\* pointing at the first image of the replacement, not the last.
SimpleOperatorImageReturnFirst(w, option, produced) ==
  LET synced == TransformThrows(SyncImageSettings(EnterHandler(w)), option,
                                produced)
      new_image == TransformImage(synced, option, produced)
  IN IF new_image # <<>>
     THEN [ReplaceImageInListReturnLast(synced, new_image)
             EXCEPT !.image_index = w.image_index,
                    !.made = @ + Len(new_image)]
     ELSE synced

\* SimpleOperatorImage without the synchronization of the image's attributes.
SimpleOperatorImageNoSync(w, option, produced) ==
  LET entered == TransformThrows(EnterHandler(w), option, produced)
      new_image == TransformImage(entered, option, produced)
  IN IF new_image # <<>>
     THEN [ReplaceImageInListReturnLast(entered, new_image)
             EXCEPT !.made = @ + Len(new_image)]
     ELSE entered

\* CLISimpleOperatorImage(cli_wand,option,arg1,arg2): one option applied to
\* the image the wand points at.
SimpleOperatorImage(w, option, produced) ==
  LET synced == TransformThrows(SyncImageSettings(EnterHandler(w)), option,
                                produced)
      new_image == TransformImage(synced, option, produced)
  IN IF new_image # <<>>
     THEN [ReplaceImageInListReturnLast(synced, new_image)
             EXCEPT !.made = @ + Len(new_image)]
     ELSE synced

\* SimpleOperatorLoop stepping on from the slot it was at before the handler
\* ran, so that the tiles a split leaves behind that slot are visited too.
RECURSIVE SimpleOperatorLoopRevisit(_, _, _)
SimpleOperatorLoopRevisit(w, option, outcomes) ==
  LET i == w.i + 1
      produced == IF i \in DOMAIN outcomes THEN outcomes[i] ELSE 0
      done == [SimpleOperatorImage(w, option, produced) EXCEPT !.i = i]
  IN IF w.image_index >= Len(done.images)
     THEN done
     ELSE SimpleOperatorLoopRevisit([done EXCEPT !.image_index = w.image_index + 1],
                                    option, outcomes)

\* SimpleOperatorLoop giving the pass up at the first image whose transform
\* hands nothing back.
RECURSIVE SimpleOperatorLoopStopOnFailure(_, _, _)
SimpleOperatorLoopStopOnFailure(w, option, outcomes) ==
  LET i == w.i + 1
      produced == IF i \in DOMAIN outcomes THEN outcomes[i] ELSE 0
      done == [SimpleOperatorImage(w, option, produced) EXCEPT !.i = i]
  IN IF done.image_index = Len(done.images) \/ done.made = w.made
     THEN done
     ELSE SimpleOperatorLoopStopOnFailure([done EXCEPT !.image_index = @ + 1],
                                          option, outcomes)

\* The loop of CLISimpleOperatorImages from the image the wand points at:
\* outcomes[i] is what the transform produces at the i-th iteration.
RECURSIVE SimpleOperatorLoop(_, _, _)
SimpleOperatorLoop(w, option, outcomes) ==
  LET i == w.i + 1
      produced == IF i \in DOMAIN outcomes THEN outcomes[i] ELSE 0
      done == [SimpleOperatorImage(w, option, produced) EXCEPT !.i = i]
  IN IF done.image_index = Len(done.images)
     THEN done
     ELSE SimpleOperatorLoop([done EXCEPT !.image_index = @ + 1],
                             option, outcomes)

\* SimpleOperatorImages without the closing GetFirstImageInList: the wand is
\* left pointing at the last image processed.
SimpleOperatorImagesNoRewind(w, option, outcomes) ==
  LET first == [w EXCEPT !.i = 0, !.n = Len(w.images), !.image_index = 1]
  IN SimpleOperatorLoop(first, option, outcomes)

\* CLISimpleOperatorImages(cli_wand,option,arg1,arg2): the assertion that
\* images are present, the loop over the list, the rewind to its head.
SimpleOperatorImages(w, option, outcomes) ==
  LET first == [w EXCEPT !.i = 0, !.n = Len(w.images), !.image_index = 1]
      looped == SimpleOperatorLoop(first, option, outcomes)
  IN IF w.images = <<>> THEN ImagesMustBePresent(w)
     ELSE [looped EXCEPT !.image_index = 1]

(* ------------------------------------------------- CLIListOperatorImages *)

\* AdoptNewImages appending the replacement to the old list, which it keeps.
AdoptNewImagesKeepOld(w, new_images) ==
  IF new_images = <<>> THEN w
  ELSE [w EXCEPT !.images = @ \o new_images, !.image_index = 1,
                 !.made = Len(new_images)]

\* The tail of CLIListOperatorImages: a replacement list, if one was made,
\* takes the place of the old list, which is destroyed.
AdoptNewImages(w, new_images) ==
  IF new_images = <<>> THEN w
  ELSE [w EXCEPT !.images = new_images, !.image_index = 1,
                 !.made = Len(new_images)]

\* ReverseImageList(&images)
ReverseImageList(list) == [k \in 1..Len(list) |-> list[Len(list) + 1 - k]]

\* GetImageFromList(images,index): the place of the image an index names,
\* counting from 0 at the first image or from -1 at the last; 0 if it names
\* no image.
GetImageFromList(list, index) ==
  LET place == IF index >= 0 THEN index + 1 ELSE Len(list) + index + 1
  IN IF place >= 1 /\ place <= Len(list) THEN place ELSE 0

\* StringToLong(arg), for the arguments given here.
StringToLong(arg) ==
  CASE arg = "0" -> 0
    [] arg = "1" -> 1
    [] arg = "2" -> 2
    [] arg = "5" -> 5
    [] arg = "-1" -> -1
    [] OTHER -> 0

\* The wand's list after images were taken off it: the wand points at the
\* first image left, or at none.
RestOfList(w, rest) ==
  [w EXCEPT !.images = rest, !.image_index = IF rest = <<>> THEN 0 ELSE 1]

\* The "clut" and "hald-clut" branches: the first image is the one worked on,
\* the last the lookup table. "clut" reads images->interpolate of what is left
\* of the list, which is NULL when the list held exactly two images: survives
\* tells whether the process outlives that read.
ClutOperator(w, option, survives) ==
  LET new_images == <<Head(w.images)>>
      rest == Tail(w.images)
  IN IF rest = <<>>
     THEN AdoptNewImages(RestOfList(w, <<>>), new_images)
     ELSE LET left == SubSeq(rest, 1, Len(rest) - 1)
          IN IF option = "clut" /\ left = <<>> /\ ~survives
             THEN [RestOfList(w, <<>>) EXCEPT !.err = "SegmentationFault"]
             ELSE AdoptNewImages(RestOfList(w, left), new_images)

\* The "composite" branch: the first image is composed with the second, a
\* third is its mask; whatever else the list holds goes with the old list.
CompositeOperator(w) ==
  LET new_images == <<Head(w.images)>>
      rest == Tail(w.images)
  IN IF rest = <<>>
     THEN AdoptNewImages(RestOfList(w, <<>>), new_images)
     ELSE AdoptNewImages(RestOfList(w, SubSeq(rest, 3, Len(rest))), new_images)

\* The "ift" branch: magnitude and phase are taken off the list; with no
\* phase image the branch ends there.
IftOperator(w, ok) ==
  LET magnitude_image == Head(w.images)
      rest == Tail(w.images)
  IN IF rest = <<>>
     THEN RestOfList(w, <<>>)
     ELSE LET new_images ==
                IF ok THEN NewImages(<<Image(0, magnitude_image.src)>>,
                                     LiveHandles(w))
                ELSE <<>>
          IN AdoptNewImages(RestOfList(w, Tail(rest)), new_images)

\* The "insert" branch: the last image is taken off the list and put back at
\* the place the index names.
InsertOperator(w, sigil, arg) ==
  LET insert_image == w.images[Len(w.images)]
      rest == SubSeq(w.images, 1, Len(w.images) - 1)
      index == IF sigil = "-" THEN StringToLong(arg) ELSE 0
      removed == RestOfList(w, rest)
  IN IF index = 0
     THEN RestOfList(w, <<insert_image>> \o rest)
     ELSE IF index = Len(rest)
     THEN RestOfList(w, rest \o <<insert_image>>)
     ELSE LET index_image == GetImageFromList(rest, index - 1)
          IN IF index_image = 0
             THEN ThrowMagickException(removed, "OptionError", "NoSuchImage")
             ELSE RestOfList(w, SubSeq(rest, 1, index_image)
                                  \o <<insert_image>>
                                  \o SubSeq(rest, index_image + 1, Len(rest)))

\* The "swap" branch: two images change places, each replaced by a copy of
\* the other.
SwapOperator(w, sigil, arg) ==
  LET geometry_info == ParseGeometry(arg)
      index == IF sigil = "-" THEN geometry_info.rho ELSE -1
      swap_index == IF sigil = "-"
                    THEN (IF geometry_info.SigmaValue
                          THEN geometry_info.sigma ELSE -1)
                    ELSE -2
      p == GetImageFromList(w.images, index)
      q == GetImageFromList(w.images, swap_index)
  IN IF p = 0 \/ q = 0
     THEN ThrowMagickException(w, "OptionError", "NoSuchImage")
     ELSE IF p = q THEN w
     ELSE LET copies == NewImages(<<w.images[p], w.images[q]>>, LiveHandles(w))
          IN RestOfList(w, [w.images EXCEPT ![p] = copies[2], ![q] = copies[1]])

\* The place of the first image after the first that was read from "null:"
\* (0 if there is none).
RECURSIVE NullSeparator(_, _)
NullSeparator(list, k) ==
  IF k > Len(list) THEN 0
  ELSE IF list[k].src = "null" THEN k
  ELSE NullSeparator(list, k + 1)

\* The "layers" branch, method Composite: the list is split at the null:
\* image, the images after it are composed onto the images before it.
LayersCompositeOperator(w) ==
  LET source == NullSeparator(w.images, 2)
  IN IF source = 0 \/ source = Len(w.images)
     THEN ThrowMagickException(w, "OptionError", "MissingNullSeparator")
     ELSE RestOfList(w, SubSeq(w.images, 1, source - 1))

\* CompareImagesLayers(images,method,exception): the first image and, for
\* each image after it, its difference from the one before, as new images.
CompareImagesLayers(w) ==
  NewImages([k \in 1..Len(w.images) |-> Image(0, w.images[k].src)],
            LiveHandles(w))

\* MergeImageLayers(images,method,exception): the images merged into one
\* new image.
MergeImageLayers(w) ==
  NewImages(<<Image(0, w.images[1].src)>>, LiveHandles(w))

\* CLIListOperatorImages(cli_wand,option,arg1,arg2), which asserts that
\* images are present before it synchronizes the settings: ok tells whether
\* the external transform succeeds (for "clut", whether the process outlives
\* a read through a null pointer). "deconstruct", "flatten" and "mosaic"
\* call the dispatcher again with the option "-layer", which no branch
\* matches.
RECURSIVE ListOperatorImages(_, _, _, _, _)
ListOperatorImages(w0, sigil, option, arg, ok) ==
  LET w == SyncImageSettings(w0) IN
  CASE w0.images = <<>> -> ImagesMustBePresent(w0)
    [] option = "deconstruct" ->
         ListOperatorImages(w, "-", "layer", "CompareAny", ok)
    [] option \in {"flatten", "mosaic"} ->
         ListOperatorImages(w, "-", "layer", option, ok)
    [] option = "layers" /\ arg = "CompareAny" ->
         AdoptNewImages(w, IF ok THEN CompareImagesLayers(w) ELSE <<>>)
    [] option = "layers" /\ arg \in {"flatten", "mosaic"} ->
         AdoptNewImages(w, IF ok THEN MergeImageLayers(w) ELSE <<>>)
    [] option \in {"clut", "hald-clut"} -> ClutOperator(w, option, ok)
    [] option = "composite" -> CompositeOperator(w)
    [] option = "ift" -> IftOperator(w, ok)
    [] option = "insert" -> InsertOperator(w, sigil, arg)
    [] option = "swap" -> SwapOperator(w, sigil, arg)
    [] option = "layers" /\ arg = "composite" -> LayersCompositeOperator(w)
    [] option = "append" ->
         AdoptNewImages(w,
           IF ok THEN NewImages(<<Image(0, w.images[1].src)>>, LiveHandles(w))
           ELSE <<>>)
    [] option = "coalesce" ->
         AdoptNewImages(w,
           IF ok
           THEN NewImages([k \in 1..Len(w.images) |->
                             Image(0, w.images[k].src)], LiveHandles(w))
           ELSE <<>>)
    [] option = "reverse" ->
         AdoptNewImages([w EXCEPT !.images = ReverseImageList(@)], <<>>)
    [] OTHER -> w

(* --------------------------------------------------------------- actions *)

\* AcquireMagickCLI(NULL,NULL): the wand after construction.
Init ==
  /\ images = <<>>
  /\ image_index = 0
  /\ image_list_stack = <<>>
  /\ image_info = AcquireImageInfo
  /\ image_info_stack = <<>>
  /\ draw_info = GetDrawInfo(AcquireImageInfo)
  /\ quantize_info = AcquireQuantizeInfo(AcquireImageInfo)
  /\ exception = [severity |-> "UndefinedException"]
  /\ last = [op |-> "init", sigil |-> "-", err |-> "none", i |-> 0, n |-> 0,
             made |-> 0, syncs |-> 0, arg |-> NULL, status |-> FALSE,
             reported |-> FALSE, entry |-> NULL, call |-> NoCall]
  /\ opened = <<>>
  /\ budget = 0
  /\ given = <<>>
  /\ visited = <<>>
  /\ parse = [pc |-> "idle"]
  /\ signature = WandSignature

\* The handler's result becomes the wand; last records the option. Every
\* dispatcher asserts both signatures on entry, so none runs on a wand that
\* DestroyMagickCLI has invalidated.
Adopt(w, sigil, option, arg) ==
  /\ signature = WandSignature
  /\ signature' = signature
  /\ images' = w.images
  /\ image_index' = w.image_index
  /\ image_list_stack' = w.image_list_stack
  /\ image_info' = w.image_info
  /\ image_info_stack' = w.image_info_stack
  /\ draw_info' = w.draw_info
  /\ quantize_info' = w.quantize_info
  /\ exception' = w.exception
  /\ parse' = parse
  /\ last' = [op |-> option, sigil |-> sigil, err |-> w.err, i |-> w.i,
              n |-> w.n, made |-> w.made, syncs |-> w.syncs, arg |-> arg,
              status |-> w.status, reported |-> w.reported,
              entry |-> w.entry, call |-> w.call]

CLISettingOptionInfo(sigil, option, arg) ==
  \E asserts \in BOOLEAN :
    Adopt(SettingOptionInfo(Wand, sigil, option, arg, asserts), sigil, option,
          arg)

CLISimpleOperatorImages(option, arg1, outcomes) ==
  Adopt(SimpleOperatorImages([Wand EXCEPT !.arg1 = arg1], option, outcomes),
        "-", option, arg1)

CLIListOperatorImages(sigil, option, arg, ok) ==
  /\ Adopt(ListOperatorImages(Wand, sigil, option, arg, ok), sigil, option, arg)

CLISpecialOperator(sigil, option, arg, mem, count) ==
  Adopt(SpecialOperator(Wand, sigil, option, arg, mem, count), sigil, option,
        arg)

\* CLICatchException(cli_wand,all_exceptions)
CLICatchException(all_exceptions) ==
  Adopt(CatchExceptionStatus(Wand, all_exceptions), "-", "CatchException",
        all_exceptions)

\* DestroyMagickCLI(cli_wand): asserts both signatures, destroys the draw and
\* quantize defaults, pops and destroys every list of the image-list stack
\* and every record of the settings stack, destroys the image list, the
\* settings and the exception sink, invalidates both signatures and returns
\* NULL. The wand's own memory is not released.
DestroyMagickCLI ==
  /\ signature = WandSignature
  /\ draw_info' = NULL
  /\ quantize_info' = NULL
  /\ image_list_stack' = <<>>
  /\ image_info_stack' = <<>>
  /\ images' = <<>>
  /\ image_index' = 0
  /\ image_info' = NULL
  /\ exception' = NULL
  /\ signature' = [cli_wand |-> FALSE, wand |-> FALSE]
  /\ parse' = parse
  /\ last' = [op |-> "DestroyMagickCLI", sigil |-> "-", err |-> "none",
              i |-> 0, n |-> 0, made |-> 0, syncs |-> 0, arg |-> NULL,
              status |-> FALSE, reported |-> FALSE, entry |-> NULL,
              call |-> NoCall]

(* ---------------------------------------------------------- bookkeeping *)

\* What each open group found when its "(" was processed (the image list, the
\* settings, the depth of the settings stack), and how the options given
\* since then nest: braces counts the "{" of the group still open, nested
\* tells that no "}" or ")" of the group came without its opener (once it has,
\* the "{" are counted no longer). DestroyMagickCLI discards every group.
TrackGroups ==
  opened' =
    IF last'.op = "DestroyMagickCLI" THEN <<>>
    ELSE IF last'.op = "(" /\ Len(image_list_stack') = Len(image_list_stack) + 1
    THEN <<[images |-> images, image_info |-> image_info,
            depth |-> Len(image_info_stack),
            braces |-> 0, nested |-> TRUE]>> \o opened
    ELSE IF last'.op = ")" /\ Len(image_list_stack') = Len(image_list_stack) - 1
    THEN IF Tail(opened) = <<>> \/ (Head(opened).nested /\ Head(opened).braces = 0)
         THEN Tail(opened)
         ELSE [Tail(opened) EXCEPT ![1].nested = FALSE, ![1].braces = 0]
    ELSE IF last'.op = "{" /\ last'.err = "none" /\ opened # <<>>
            /\ Head(opened).nested
    THEN [opened EXCEPT ![1].braces = @ + 1]
    ELSE IF last'.op = "}" /\ opened # <<>>
    THEN IF Head(opened).braces > 0
         THEN [opened EXCEPT ![1].braces = @ - 1]
         ELSE [opened EXCEPT ![1].nested = FALSE]
    ELSE opened

LiveImages == Cardinality(LiveHandles(Wand))

\* The images a per-image pass leaves in the list, given what each transform
\* produces: an image with no replacement stays.
RECURSIVE Produced(_)
Produced(outcomes) ==
  IF outcomes = <<>> THEN 0
  ELSE (IF Head(outcomes) = 0 THEN 1 ELSE Head(outcomes)) + Produced(Tail(outcomes))

(* -------------------------------------------------------- specifications *)

\* Spec: grouping and settings, with the image list kept short and the
\* nesting shallow; every group's "(" is remembered in opened.
Next ==
  \/ \E sigil \in {"-", "+"}, arg \in {NULL, "true"} :
       /\ CLISettingOptionInfo(sigil, "respect-parenthesis", arg)
       /\ TrackGroups /\ UNCHANGED <<budget, given, visited>>
  \/ \E sigil \in {"-", "+"}, option \in {"background"} :
       /\ CLISettingOptionInfo(sigil, option, "red")
       /\ TrackGroups /\ UNCHANGED <<budget, given, visited>>
  \/ /\ Len(image_list_stack) < MaxNest
     /\ CLISpecialOperator("-", "(", NULL, "none", 0)
     /\ TrackGroups /\ UNCHANGED <<budget, given, visited>>
  \/ /\ Len(image_info_stack) < MaxBraces
     /\ opened # <<>> => Head(opened).braces < MaxBraces
     /\ CLISpecialOperator("-", "{", NULL, "none", 0)
     /\ TrackGroups /\ UNCHANGED <<budget, given, visited>>
  \/ \E option \in {")", "}"} :
       /\ CLISpecialOperator("-", option, NULL, "none", 0)
       /\ TrackGroups /\ UNCHANGED <<budget, given, visited>>
  \/ \E count \in 0..1 :
       /\ LiveImages + count <= MaxImages
       /\ CLISpecialOperator("-", "read", "a", "none", count)
       /\ TrackGroups /\ UNCHANGED <<budget, given, visited>>

Spec == Init /\ [][Next]_vars

\* SpecDeep: any number of "(", and at most MaxOther other options in a run;
\* the stacks reach MAX_STACK_DEPTH.
Spend == budget < MaxOther /\ budget' = budget + 1 /\ UNCHANGED <<opened, given, visited>>

NextDeep ==
  \/ /\ CLISpecialOperator("-", "(", NULL, "none", 0)
     /\ UNCHANGED <<budget, opened, given, visited>>
  \/ \E option \in {"{", ")", "}"} :
       CLISpecialOperator("-", option, NULL, "none", 0) /\ Spend
  \/ \E sigil \in {"-", "+"} :
       CLISettingOptionInfo(sigil, "respect-parenthesis", "true") /\ Spend
  \/ \E option \in {"background", "family", "quantize", "undercolor", "box"} :
       CLISettingOptionInfo("-", option, "red") /\ Spend
  \/ CLISpecialOperator("-", "read", "a", "none", 1) /\ Spend
  \/ CLISpecialOperator("+", "clone", NULL, "none", 0) /\ Spend
  \/ \E outcomes \in [1..Len(images) -> 0..1] :
       images # <<>> /\ CLISimpleOperatorImages("resize", NULL, outcomes) /\ Spend
  \/ \E ok \in BOOLEAN :
       images # <<>> /\ CLIListOperatorImages("-", "append", NULL, ok) /\ Spend

SpecDeep == Init /\ [][NextDeep]_vars

\* SpecList: the image list under read, clone, grouping, per-image and
\* whole-list operators, with the settings left as constructed.
NextList ==
  \/ \E src \in {"a", "b"}, count \in 0..MaxLoad :
       /\ LiveImages + count <= MaxListImages
       /\ CLISpecialOperator("-", "read", src, "none", count)
       /\ UNCHANGED <<budget, opened, given, visited>>
  \/ /\ Len(image_list_stack) < MaxListNest
     /\ CLISpecialOperator("-", "(", NULL, "none", 0)
     /\ UNCHANGED <<budget, opened, given, visited>>
  \/ /\ CLISpecialOperator("-", ")", NULL, "none", 0)
     /\ UNCHANGED <<budget, opened, given, visited>>
  \/ \E sigil \in {"-", "+"}, arg \in {"0", "1", "0--1"} :
       /\ CLISpecialOperator(sigil, "clone", arg, "none", 0)
       /\ LiveImages' <= MaxListImages
       /\ UNCHANGED <<budget, opened, given, visited>>
  \/ \E option \in {"negate", "resize"}, outcomes \in [1..Len(images) -> 0..1] :
       /\ images # <<>> /\ CLISimpleOperatorImages(option, NULL, outcomes)
       /\ UNCHANGED <<budget, opened, given, visited>>
  \/ \E outcomes \in [1..Len(images) -> 0..MaxTiles] :
       /\ LiveImages + Produced(outcomes) <= MaxListImages + Len(images)
       /\ images # <<>> /\ CLISimpleOperatorImages("crop", NULL, outcomes)
       /\ UNCHANGED <<budget, opened, given, visited>>
  \/ \E option \in {"append", "coalesce", "reverse"}, ok \in BOOLEAN :
       /\ images # <<>> /\ CLIListOperatorImages("-", option, NULL, ok)
       /\ UNCHANGED <<budget, opened, given, visited>>

SpecList == Init /\ [][NextList]_vars

\* Per-image dispatch on its own: single reads build a list, then per-image
\* operators run over it; a split may grow the list to MaxSplitImages.
NextSplit ==
  \/ \E src \in {"a", "b"} :
       /\ LiveImages + 1 < MaxSplitImages
       /\ CLISpecialOperator("-", "read", src, "none", 1)
       /\ given' = <<>>
       /\ visited' = <<>>
       /\ UNCHANGED <<budget, opened>>
  \/ \E outcomes \in [1..Len(images) -> 0..1] :
       /\ images # <<>> /\ CLISimpleOperatorImages("resize", NULL, outcomes)
       /\ given' = outcomes
       /\ visited' = SimpleOperatorImages(Wand, "resize", outcomes).seen
       /\ UNCHANGED <<budget, opened>>
  \/ \E outcomes \in [1..Len(images) -> 0..MaxTiles] :
       /\ Produced(outcomes) <= MaxSplitImages
       /\ images # <<>> /\ CLISimpleOperatorImages("crop", NULL, outcomes)
       /\ given' = outcomes
       /\ visited' = SimpleOperatorImages(Wand, "crop", outcomes).seen
       /\ UNCHANGED <<budget, opened>>

SpecSplit == Init /\ [][NextSplit]_vars

\* SpecOps: the whole-list operators that take their operands off the list
\* or move images within it, and two that build their result from the whole
\* list, on lists built by single reads. Nothing runs once the process has
\* died.
Crashed == last.err \in {"SegmentationFault", "AssertionFailed"}

NextOps ==
  \/ \E src \in {"a", "b", "null"} :
       /\ ~Crashed
       /\ LiveImages + 1 <= MaxOpsImages
       /\ CLISpecialOperator("-", "read", src, "none", 1)
       /\ UNCHANGED <<budget, opened, given, visited>>
  \/ \E option \in {"clut", "hald-clut", "composite", "ift"}, ok \in BOOLEAN :
       /\ ~Crashed
       /\ images # <<>> /\ CLIListOperatorImages("-", option, NULL, ok)
       /\ UNCHANGED <<budget, opened, given, visited>>
  \/ \E option \in {"append", "coalesce"}, ok \in BOOLEAN :
       /\ ~Crashed
       /\ images # <<>> /\ CLIListOperatorImages("-", option, NULL, ok)
       /\ UNCHANGED <<budget, opened, given, visited>>
  \/ \E sigil \in {"-", "+"}, arg \in {"0", "1", "5"} :
       /\ ~Crashed
       /\ images # <<>> /\ CLIListOperatorImages(sigil, "insert", arg, TRUE)
       /\ UNCHANGED <<budget, opened, given, visited>>
  \/ \E sigil \in {"-", "+"}, arg \in {"0,1", "0,5", "1"} :
       /\ ~Crashed
       /\ images # <<>> /\ CLIListOperatorImages(sigil, "swap", arg, TRUE)
       /\ UNCHANGED <<budget, opened, given, visited>>
  \/ /\ ~Crashed
     /\ images # <<>> /\ CLIListOperatorImages("-", "layers", "composite", TRUE)
     /\ UNCHANGED <<budget, opened, given, visited>>

SpecOps == Init /\ [][NextOps]_vars

\* Errors: groups and settings groups whose allocations may fail, the
\* sparse-color transform with each of its outcomes, clone with well-formed
\* and malformed arguments, and the caller draining the sink.
NextErr ==
  \/ \E mem \in {"none", "list_node", "info_node", "info_clone"} :
       /\ Len(image_list_stack) < MaxErrNest
       /\ Len(image_info_stack) < MaxErrNest
       /\ CLISpecialOperator("-", "(", NULL, mem, 0)
       /\ UNCHANGED <<budget, opened, given, visited>>
  \/ \E mem \in {"none", "info_node", "info_clone"} :
       /\ Len(image_info_stack) < MaxErrNest
       /\ CLISpecialOperator("-", "{", NULL, mem, 0)
       /\ UNCHANGED <<budget, opened, given, visited>>
  \/ \E option \in {")", "}"} :
       /\ CLISpecialOperator("-", option, NULL, "none", 0)
       /\ UNCHANGED <<budget, opened, given, visited>>
  \/ \E sigil \in {"-", "+"} :
       /\ CLISettingOptionInfo(sigil, "respect-parenthesis", "true")
       /\ UNCHANGED <<budget, opened, given, visited>>
  \/ /\ LiveImages + 1 <= MaxErrImages
     /\ CLISpecialOperator("-", "read", "a", "none", 1)
     /\ UNCHANGED <<budget, opened, given, visited>>
  \/ \E outcomes \in [1..Len(images) ->
                        {"ok", "InvalidArgument", "MemoryAllocationFailed"}] :
       /\ images # <<>>
       /\ CLISimpleOperatorImages("sparse-color", NULL, outcomes)
       /\ UNCHANGED <<budget, opened, given, visited>>
  \/ \E sigil \in {"-", "+"}, arg \in {"0", "x"} :
       /\ CLISpecialOperator(sigil, "clone", arg, "none", 0)
       /\ LiveImages' <= MaxErrImages
       /\ UNCHANGED <<budget, opened, given, visited>>
  \/ \E all_exceptions \in BOOLEAN :
       /\ CLICatchException(all_exceptions)
       /\ UNCHANGED <<budget, opened, given, visited>>

SpecErr == Init /\ [][NextErr]_vars

\* The setting options of the settings specification, as <<name, argument>>.
SetOptions ==
  {<<"adjoin", NULL>>, <<"background", "red">>, <<"box", "red">>,
   <<"dither", "None">>, <<"dither", "FloydSteinberg">>,
   <<"family", "serif">>, <<"fill", "red">>, <<"fill", "pat">>,
   <<"fill", "missing">>,
   <<"page", "8x8">>, <<"page", "+1+1">>, <<"ping", NULL>>,
   <<"quantize", "gray">>, <<"respect-parenthesis", "true">>,
   <<"tile", "pat">>, <<"tile", "missing">>, <<"undercolor", "red">>}

\* The settings records saved by the pushes still open, as they were when
\* they were saved.
TrackSaved ==
  given' =
    IF Len(image_info_stack') = Len(image_info_stack) + 1
    THEN <<image_info>> \o given
    ELSE IF Len(image_info_stack') = Len(image_info_stack) - 1
    THEN Tail(given)
    ELSE given

\* Settings: every setting option with either sigil, before and after an
\* image exists, inside and outside groups and settings groups.
NextSet ==
  \/ \E sigil \in {"-", "+"}, o \in SetOptions :
       /\ ~Crashed
       /\ budget < MaxSetSteps
       /\ budget' = budget + 1
       /\ CLISettingOptionInfo(sigil, o[1], o[2])
       /\ TrackSaved /\ UNCHANGED <<opened, visited>>
  \/ /\ ~Crashed
     /\ LiveImages + 1 <= MaxSetImages
     /\ CLISpecialOperator("-", "read", "a", "none", 1)
     /\ TrackSaved /\ UNCHANGED <<budget, opened, visited>>
  \/ /\ ~Crashed
     /\ Len(image_list_stack) < MaxSetNest
     /\ Len(image_info_stack) < MaxSetNest
     /\ CLISpecialOperator("-", "(", NULL, "none", 0)
     /\ TrackSaved /\ UNCHANGED <<budget, opened, visited>>
  \/ /\ ~Crashed
     /\ Len(image_info_stack) < MaxSetNest
     /\ CLISpecialOperator("-", "{", NULL, "none", 0)
     /\ TrackSaved /\ UNCHANGED <<budget, opened, visited>>
  \/ \E option \in {")", "}"} :
       /\ ~Crashed
       /\ CLISpecialOperator("-", option, NULL, "none", 0)
       /\ TrackSaved /\ UNCHANGED <<budget, opened, visited>>

SpecSet == Init /\ [][NextSet]_vars

\* The tokens argument strings are made of: two numbers, a color name and
\* a "#hex" color.
Vocabulary ==
  {<<"0">>, <<"1", "0">>, <<"r", "e", "d">>,
   <<"#", "0", "0", "f", "f", "0", "0">>}

\* Tokens written one after the other with commas between them.
RECURSIVE Join(_)
Join(tokens) ==
  IF tokens = <<>> THEN <<>>
  ELSE IF Len(tokens) = 1 THEN Head(tokens)
  ELSE Head(tokens) \o <<",">> \o Join(Tail(tokens))

\* The mini-parser is entered with any argument string of up to MaxTokens
\* tokens, for an image with any number of color channels.
InitParse ==
  /\ images = <<>>
  /\ image_index = 0
  /\ image_list_stack = <<>>
  /\ image_info = AcquireImageInfo
  /\ image_info_stack = <<>>
  /\ draw_info = GetDrawInfo(AcquireImageInfo)
  /\ quantize_info = AcquireQuantizeInfo(AcquireImageInfo)
  /\ exception = [severity |-> "UndefinedException"]
  /\ last = [op |-> "init", sigil |-> "-", err |-> "none", i |-> 0, n |-> 0,
             made |-> 0, syncs |-> 0, arg |-> NULL, status |-> FALSE,
             reported |-> FALSE, entry |-> NULL, call |-> NoCall]
  /\ opened = <<>>
  /\ budget = 0
  /\ given = <<>>
  /\ visited = <<>>
  /\ signature = WandSignature
  /\ \E n \in 0..MaxTokens, number_colors \in 1..MaxColors :
       \E tokens \in [1..n -> Vocabulary] :
         parse = ParseStart(Join(tokens), number_colors)

\* A step of SparseColorOption: its locals move on, and what it throws goes
\* to the wand's exception sink.
ParseStep(q, severity, reason) ==
  /\ parse' = q
  /\ exception' = IF reason = "none" THEN exception
                  ELSE ThrowMagickException(Wand, severity, reason).exception
  /\ last' = [last EXCEPT !.op = "sparse-color", !.err = reason]
  /\ UNCHANGED <<images, image_index, image_list_stack, image_info,
                 image_info_stack, draw_info, quantize_info, opened, budget,
                 given, visited, signature>>

ParseCount ==
  /\ parse.pc = "start"
  /\ LET q == CountPass(parse)
     IN ParseStep(q, "OptionError",
                  IF q.error THEN "InvalidArgument" ELSE "none")

ParseAllocate(mem) ==
  /\ parse.pc = "counted"
  /\ LET q == AllocatePass(parse, mem)
     IN ParseStep(q, "ResourceLimitError",
                  IF q.pc = "returned" THEN "MemoryAllocationFailed"
                  ELSE "none")

ParseFill(ok) ==
  /\ parse.pc = "allocated"
  /\ LET q == FillPass(parse, ok)
     IN ParseStep(q, "OptionError",
                  IF q.why # NULL THEN "InvalidArgument" ELSE "none")

NextParse ==
  \/ ParseCount
  \/ \E mem \in {"none", "sparse_arguments"} : ParseAllocate(mem)
  \/ \E ok \in BOOLEAN : ParseFill(ok)

SpecParse == InitParse /\ [][NextParse]_vars

\* The images the last load yielded.
TrackLoad(count) == given' = <<count>>

\* Control operators and dispatch on any list, the empty one included: the
\* ping flag set, unset and restored by "}", loads that yield nothing, and
\* the per-image and whole-list dispatchers entered without a guard.
NextCtl ==
  \/ \E sigil \in {"-", "+"} :
       /\ ~Crashed
       /\ CLISettingOptionInfo(sigil, "ping", NULL)
       /\ UNCHANGED <<budget, opened, given, visited>>
  \/ \E src \in {"a", "b"}, count \in 0..MaxCtlLoad :
       /\ ~Crashed
       /\ LiveImages + count <= MaxCtlImages
       /\ CLISpecialOperator("-", "read", src, "none", count)
       /\ TrackLoad(count) /\ UNCHANGED <<budget, opened, visited>>
  \/ /\ ~Crashed
     /\ Len(image_list_stack) < MaxCtlNest
     /\ CLISpecialOperator("-", "(", NULL, "none", 0)
     /\ UNCHANGED <<budget, opened, given, visited>>
  \/ /\ ~Crashed
     /\ Len(image_info_stack) < MaxCtlNest
     /\ CLISpecialOperator("-", "{", NULL, "none", 0)
     /\ UNCHANGED <<budget, opened, given, visited>>
  \/ \E option \in {")", "}"} :
       /\ ~Crashed
       /\ CLISpecialOperator("-", option, NULL, "none", 0)
       /\ UNCHANGED <<budget, opened, given, visited>>
  \/ \E sigil \in {"-", "+"} :
       /\ ~Crashed
       /\ CLISpecialOperator(sigil, "clone", "0", "none", 0)
       /\ LiveImages' <= MaxCtlImages
       /\ UNCHANGED <<budget, opened, given, visited>>
  \/ \E o \in {<<"noop", NULL>>, <<"sans", NULL>>, <<"list", "color">>} :
       /\ ~Crashed
       /\ CLISpecialOperator("-", o[1], o[2], "none", 0)
       /\ UNCHANGED <<budget, opened, given, visited>>
  \/ \E option \in {"negate", "resize"}, outcomes \in [1..Len(images) -> 0..1] :
       /\ ~Crashed
       /\ CLISimpleOperatorImages(option, NULL, outcomes)
       /\ UNCHANGED <<budget, opened, given, visited>>
  \/ \E option \in {"append", "reverse"} :
       /\ ~Crashed
       /\ CLIListOperatorImages("-", option, NULL, TRUE)
       /\ UNCHANGED <<budget, opened, given, visited>>

SpecCtl == Init /\ [][NextCtl]_vars

\* Grouping with "(" and ")" only: the toggle and another setting changed
\* with either sigil in between, reads, and "(" whose allocations fail; the
\* wand may be destroyed at any point, with groups still open.
NextPar ==
  \/ \E sigil \in {"-", "+"},
        o \in {<<"respect-parenthesis", "true">>, <<"background", "red">>} :
       /\ CLISettingOptionInfo(sigil, o[1], o[2])
       /\ TrackGroups /\ UNCHANGED <<budget, given, visited>>
  \/ \E mem \in {"none", "list_node", "info_node", "info_clone"} :
       /\ Len(image_list_stack) < MaxParNest
       /\ CLISpecialOperator("-", "(", NULL, mem, 0)
       /\ TrackGroups /\ UNCHANGED <<budget, given, visited>>
  \/ /\ CLISpecialOperator("-", ")", NULL, "none", 0)
     /\ TrackGroups /\ UNCHANGED <<budget, given, visited>>
  \/ /\ LiveImages + 1 <= MaxParImages
     /\ CLISpecialOperator("-", "read", "a", "none", 1)
     /\ TrackGroups /\ UNCHANGED <<budget, given, visited>>
  \/ /\ DestroyMagickCLI
     /\ TrackGroups /\ UNCHANGED <<budget, given, visited>>

SpecPar == Init /\ [][NextPar]_vars

\* Layers: reads, the layer methods CompareAny, flatten and mosaic, and the
\* three options redirected to them.
NextLay ==
  \/ \E src \in {"a", "b"} :
       /\ LiveImages + 1 <= MaxLayImages
       /\ CLISpecialOperator("-", "read", src, "none", 1)
       /\ UNCHANGED <<budget, opened, given, visited>>
  \/ \E arg \in {"CompareAny", "flatten", "mosaic"}, ok \in BOOLEAN :
       /\ images # <<>> /\ CLIListOperatorImages("-", "layers", arg, ok)
       /\ UNCHANGED <<budget, opened, given, visited>>
  \/ \E option \in {"deconstruct", "flatten", "mosaic"} :
       /\ images # <<>> /\ CLIListOperatorImages("-", option, NULL, TRUE)
       /\ UNCHANGED <<budget, opened, given, visited>>

SpecLay == Init /\ [][NextLay]_vars

\* The two options given before the one just processed, the later first.
TrackOrder ==
  given' = <<[op |-> last.op, sigil |-> last.sigil]>>
             \o (IF given = <<>> THEN <<>> ELSE <<Head(given)>>)

\* Ping and verbose in any order with either sigil, inside and outside
\* settings groups, and reads.
NextPing ==
  \/ \E sigil \in {"-", "+"}, option \in {"ping", "verbose"} :
       /\ CLISettingOptionInfo(sigil, option, NULL)
       /\ TrackOrder /\ UNCHANGED <<budget, opened, visited>>
  \/ \E src \in {"a", "b"}, count \in 0..1 :
       /\ LiveImages + count <= MaxPingImages
       /\ CLISpecialOperator("-", "read", src, "none", count)
       /\ TrackOrder /\ UNCHANGED <<budget, opened, visited>>
  \/ /\ Len(image_info_stack) < MaxPingNest
     /\ CLISpecialOperator("-", "{", NULL, "none", 0)
     /\ TrackOrder /\ UNCHANGED <<budget, opened, visited>>
  \/ /\ CLISpecialOperator("-", "}", NULL, "none", 0)
     /\ TrackOrder /\ UNCHANGED <<budget, opened, visited>>

SpecPing == Init /\ [][NextPing]_vars

\* The arguments given to the blur family: rho alone, rho and sigma, sigma
\* alone, all three.
BlurArguments == {"1", "3", "3x2", "x2", "3x2+1"}

\* The blur family: reads, and each of its options with each argument, the
\* transform failing or not for each image.
NextBlur ==
  \/ \E src \in {"a", "b"} :
       /\ LiveImages + 1 <= MaxBlurImages
       /\ CLISpecialOperator("-", "read", src, "none", 1)
       /\ UNCHANGED <<budget, opened, given, visited>>
  \/ \E option \in BlurFamily, arg1 \in BlurArguments,
        outcomes \in [1..Len(images) -> 0..1] :
       /\ images # <<>> /\ CLISimpleOperatorImages(option, arg1, outcomes)
       /\ UNCHANGED <<budget, opened, given, visited>>

SpecBlur == Init /\ [][NextBlur]_vars

(* ---------------------------------------------------------------- claims *)

\* What a handler that only reports leaves alone: the image list, the active
\* settings, the draw and quantize defaults and both stacks.
NothingChanges ==
  /\ images' = images
  /\ image_info' = image_info
  /\ draw_info' = draw_info
  /\ quantize_info' = quantize_info
  /\ image_list_stack' = image_list_stack
  /\ image_info_stack' = image_info_stack

\* C1: after any sequence of options, failed ones included, the image-list
\* stack and the settings stack each hold at most MAX_STACK_DEPTH entries.
C1_StackDepthBounded ==
  /\ Len(image_list_stack) <= MAX_STACK_DEPTH
  /\ Len(image_info_stack) <= MAX_STACK_DEPTH

\* Both stacks are full and one more "(" has just been refused.
C1_Witness ==
  /\ Len(image_list_stack) = MAX_STACK_DEPTH
  /\ Len(image_info_stack) = MAX_STACK_DEPTH
  /\ last.op = "("
  /\ last.err = "ParenthesisNestedTooDeeply"

\* C2: a "(" given when MAX_STACK_DEPTH groups are open, and a "{" given when
\* the settings stack holds MAX_STACK_DEPTH records, reports
\* ParenthesisNestedTooDeeply and changes neither stack, the image list nor
\* the active settings.
C2_OverflowRefused ==
  [][ ( \/ last'.op = "(" /\ Len(image_list_stack) = MAX_STACK_DEPTH
        \/ last'.op = "{" /\ Len(image_info_stack) = MAX_STACK_DEPTH )
      => last'.err = "ParenthesisNestedTooDeeply" /\ NothingChanges ]_vars

\* A "(" refused at full depth while the innermost group holds an image.
C2_Witness ==
  /\ Len(image_list_stack) = MAX_STACK_DEPTH
  /\ images # <<>>
  /\ last.op = "("
  /\ last.err = "ParenthesisNestedTooDeeply"

\* C3: a ")" given with no open group, and a "}" given with an empty settings
\* stack, reports UnbalancedParenthesis and changes neither the image list,
\* the active settings, the draw and quantize defaults nor either stack.
C3_UnbalancedRefused ==
  [][ ( \/ last'.op = ")" /\ image_list_stack = <<>>
        \/ last'.op = "}" /\ image_info_stack = <<>> )
      => last'.err = "UnbalancedParenthesis" /\ NothingChanges ]_vars

\* A "}" refused on an empty settings stack while the draw defaults hold a
\* family that the settings record does not.
C3_Witness ==
  /\ last.op = "}"
  /\ last.err = "UnbalancedParenthesis"
  /\ image_info_stack = <<>>
  /\ draw_info.family # NULL

\* The group being closed and the options given inside it are well nested.
WellNested == Head(opened).nested /\ Head(opened).braces = 0

\* C4: a "(" followed at once by ")" leaves the image list and the active
\* settings as they were before the "(", and both stack depths unchanged.
C4_RoundTrip ==
  [][ (last.op = "(" /\ last.err = "none" /\ last'.op = ")")
      => /\ images' = Head(opened).images
         /\ image_info' = Head(opened).image_info
         /\ Len(image_info_stack') = Head(opened).depth
         /\ Len(image_list_stack') = Len(image_list_stack) - 1 ]_vars

\* C6: a "(" processed with the toggle off in the active settings, and the
\* ")" that closes it, leave the settings stack and the active settings as
\* they are.
C6_ToggleOffSharesSettings ==
  [][ /\ (last'.op = "("
           /\ GetImageOption(image_info, "respect-parenthesis") = NULL)
          => image_info_stack' = image_info_stack /\ image_info' = image_info
      /\ (last'.op = ")" /\ opened # <<>> /\ WellNested
           /\ GetImageOption(Head(opened).image_info,
                              "respect-parenthesis") = NULL)
          => image_info_stack' = image_info_stack /\ image_info' = image_info
    ]_vars

\* C7: the ")" that closes a group whose "(" was processed with the toggle on
\* restores the active settings to what they were at that "(", whatever
\* well-nested options came in between.
C7_ToggleOnRestoresSettings ==
  [][ (last'.op = ")" /\ opened # <<>> /\ WellNested
       /\ GetImageOption(Head(opened).image_info,
                          "respect-parenthesis") # NULL)
      => image_info' = Head(opened).image_info ]_vars

\* C5: a successful ")" sets the image list to the list its "(" saved
\* followed by the images current just before the ")", and takes one entry
\* off the image-list stack.
C5_PopAppends ==
  [][ (last'.op = ")" /\ last'.err = "none")
      => /\ image_list_stack # <<>>
         /\ images' = Head(image_list_stack) \o images
         /\ image_list_stack' = Tail(image_list_stack) ]_vars

\* A ")" has joined a saved list that starts with an image of source "a" and
\* a current list that ends with one of source "b".
C5_Witness ==
  /\ last.op = ")"
  /\ last.err = "none"
  /\ Len(images) = MaxListImages
  /\ images[1].src = "a"
  /\ images[Len(images)].src = "b"

\* Every image some list of the wand holds, list after list.
RECURSIVE Flatten(_)
Flatten(lists) ==
  IF lists = <<>> THEN <<>> ELSE Head(lists) \o Flatten(Tail(lists))

AllImages == images \o Flatten(image_list_stack)

\* C8: an image handle occurs exactly once in the image list and the lists
\* of the image-list stack taken together.
C8_OneOwner ==
  \A j, k \in 1..Len(AllImages) : AllImages[j].h = AllImages[k].h => j = k

\* A clone has just put a copy of a saved image into the current list.
C8_Witness ==
  /\ last.op = "clone"
  /\ last.err = "none"
  /\ image_list_stack # <<>>
  /\ Len(Head(image_list_stack)) >= 2
  /\ images # <<>>

\* The sources of the images of a list, in list order.
SrcOf(list) == [k \in 1..Len(list) |-> list[k].src]

\* C9: a per-image operator that works in place or replaces one image by one
\* image leaves the list with the length and the order it had, and the wand
\* pointing at the first image.
C9_DispatchKeepsList ==
  [][ (last'.op \in {"negate", "resize"})
      => /\ Len(images') = Len(images)
         /\ SrcOf(images') = SrcOf(images)
         /\ image_index' = 1
         /\ last'.op = "negate" => images' = images ]_vars

\* A resize over three images of which two were replaced, the first and the
\* last of different sources.
C9_Witness ==
  /\ last.op = "resize"
  /\ last.n = 3
  /\ last.made = 2
  /\ Len(images) = 3
  /\ images[1].src # images[3].src

\* How many images the k-th image of a list becomes, and where its first
\* tile lands, given what each transform produces.
TilesOf(outcomes, k) == IF outcomes[k] = 0 THEN 1 ELSE outcomes[k]

RECURSIVE PlaceOf(_, _)
PlaceOf(outcomes, k) ==
  IF k = 1 THEN 1 ELSE PlaceOf(outcomes, k - 1) + TilesOf(outcomes, k - 1)

\* C10: a pass in which image k is split into given[k] tiles leaves each
\* image's tiles at that image's place, in the order of the images, and every
\* image that was not split as it was: N images of which one becomes k leave
\* N-1+k.
C10_SplitInPlace ==
  [][ (last'.op = "crop")
      => /\ Len(images') = Produced(given')
         /\ \A k \in 1..Len(images) :
              \A t \in 0..(TilesOf(given', k) - 1) :
                /\ images'[PlaceOf(given', k) + t].src = images[k].src
                /\ given'[k] = 0
                   => images'[PlaceOf(given', k)] = images[k] ]_vars

\* Three images a, b, a of which the middle one was split in two.
C10_Witness ==
  /\ last.op = "crop"
  /\ given = <<0, 2, 0>>
  /\ SrcOf(images) = <<"a", "b", "b", "a">>

\* The handles of the images of a list, in list order.
HandlesOf(list) == [k \in 1..Len(list) |-> list[k].h]

\* C11: one per-image pass hands the handler each image present at entry
\* once, in list order, and no image made during the pass: the iteration
\* count equals the list length sampled at entry.
C11_OncePerImage ==
  [][ (last'.op \in {"resize", "crop"})
      => /\ last'.n = Len(images)
         /\ last'.i = last'.n
         /\ visited' = HandlesOf(images) ]_vars

\* A pass over three images: the first split in two, the second replaced by
\* one image, the third left as it was.
C11_Witness ==
  /\ last.op = "crop"
  /\ given = <<2, 1, 0>>
  /\ last.i = 3

\* C12 as stated: a per-image pass synchronizes image attributes from the
\* settings once, whatever the number of images.
C12_SyncOncePerPass ==
  [][ (last'.op \in {"resize", "crop"}) => last'.syncs = 1 ]_vars

\* C12 as amended: a per-image pass synchronizes once for each image present
\* at entry, in the handler, before that image's transform.
C12_SyncOncePerImage ==
  [][ (last'.op \in {"resize", "crop"}) => last'.syncs = Len(images) ]_vars

\* A pass over three images has synchronized three times.
C12_Witness ==
  /\ last.op = "resize"
  /\ last.n = 3
  /\ last.syncs = 3

\* The number of transforms of a pass that handed an image back.
RECURSIVE Successes(_)
Successes(outcomes) ==
  IF outcomes = <<>> THEN 0
  ELSE (IF Head(outcomes) = 0 THEN 0 ELSE 1) + Successes(Tail(outcomes))

\* C13: in a one-for-one pass, an image whose transform fails stays in its
\* slot as it was, every other image is still processed and replaced, and
\* the list keeps its length and order.
C13_FailureSkipsOneImage ==
  [][ (last'.op = "resize")
      => /\ Len(images') = Len(images)
         /\ last'.i = Len(images)
         /\ last'.made = Successes(given')
         /\ \A k \in 1..Len(images) :
              /\ given'[k] = 0 => images'[k] = images[k]
              /\ given'[k] # 0 => /\ images'[k].src = images[k].src
                                  /\ images'[k].h # images[k].h ]_vars

\* A pass over three images in which the transform of the middle one failed.
C13_Witness ==
  /\ last.op = "resize"
  /\ given = <<1, 0, 1>>
  /\ images[1].src # images[2].src

\* The whole-list operators that hand a replacement list to the tail of the
\* dispatcher: the first three make new images, the last three take the
\* first image off the list and work on it.
ReplacingOptions ==
  {"append", "coalesce", "ift", "clut", "hald-clut", "composite"}

\* C14 as stated: when a whole-list operator makes a replacement list, the
\* image list afterwards is that replacement, from its first image, and
\* holds no image of the old list; the stacks are left alone.
C14_NoOldImageRemains ==
  [][ (last'.op \in ReplacingOptions /\ last'.made > 0)
      => /\ Len(images') = last'.made
         /\ image_index' = 1
         /\ Handles(images') \cap Handles(images) = {}
         /\ image_list_stack' = image_list_stack ]_vars

\* C14: when a whole-list operator makes a replacement list, the image list
\* afterwards is that replacement, from its first image, and every image the
\* operator left in the old list is gone. An operator that makes new images
\* leaves no old image in the list; "clut", "hald-clut" and "composite" take
\* the first image off the old list and hand it on as the replacement, so
\* that one old image, and no other, is the list afterwards. The stacks are
\* left alone.
C14_ReplacementAdopted ==
  [][ (last'.op \in ReplacingOptions /\ last'.made > 0)
      => /\ Len(images') = last'.made
         /\ image_index' = 1
         /\ last'.op \in {"append", "coalesce", "ift"}
              => Handles(images') \cap Handles(images) = {}
         /\ last'.op \in {"clut", "hald-clut", "composite"}
              => images' = <<images[1]>>
         /\ last'.op = "append" => Len(images') = 1
         /\ last'.op = "coalesce" => SrcOf(images') = SrcOf(images)
         /\ image_list_stack' = image_list_stack ]_vars

\* An append has replaced a list of two images by one new image: the one
\* image alive has the third handle.
C14_Witness ==
  /\ last.op = "append"
  /\ last.made = 1
  /\ image_list_stack = <<>>
  /\ Len(images) = 1
  /\ images[1].h = 3

\* A composite of three images read one after the other has completed: the
\* list is the image read first.
C14_WitnessInPlace ==
  /\ last.op = "composite"
  /\ last.made = 1
  /\ last.err = "none"
  /\ images = <<Image(1, "a")>>
  /\ image_list_stack = <<>>

\* C15: a whole-list operator that takes its operands off the list and finds
\* fewer than the two it needs leaves the image list as it was.
C15_TooFewOperandsKeepList ==
  [][ (last'.op \in {"clut", "hald-clut", "composite", "ift"}
       /\ Len(images) < 2)
      => images' = images ]_vars

\* C16: an insert or swap that reports NoSuchImage, and a layers composite
\* that reports a missing null separator, leave the image list as it was.
C16_FailedOptionKeepsList ==
  [][ (last'.op \in {"insert", "swap", "layers"}
       /\ last'.err \in {"NoSuchImage", "MissingNullSeparator"})
      => images' = images ]_vars

\* C17: every allocation failure detected by the core is recorded with fatal
\* severity, so the sink then holds a fatal severity and a drain that follows
\* returns true, the blocking answer.
C17_AllocationFailureFatal ==
  [][/\ last'.err = "MemoryAllocationFailed"
        => Severity(exception'.severity) >= Severity("FatalErrorException")
     /\ last.err = "MemoryAllocationFailed" /\ last'.op = "CatchException"
        => last'.status]_vars

\* The allocation failures of "(" and "{" taken alone are fatal.
C17_StackFailureFatal ==
  [][last'.err = "MemoryAllocationFailed" /\ last'.op \in {"(", "{"}
       => /\ exception'.severity = "ResourceLimitFatalError"
          /\ image_list_stack' = image_list_stack \/ last'.op = "("
          /\ image_info_stack' = image_info_stack]_vars

C17_Witness ==
  /\ last.op = "sparse-color"
  /\ last.err = "MemoryAllocationFailed"
  /\ exception.severity = "ResourceLimitError"

\* C18: draining the sink returns true exactly when the accumulated severity
\* is above ErrorException; the sink is reported and cleared exactly when the
\* answer is false or all exceptions were asked for; a true answer without
\* all_exceptions keeps the records, and a second drain with all_exceptions
\* then still reports them. Nothing else of the wand changes.
C18_DrainExceptions ==
  [][last'.op = "CatchException"
       => /\ last'.status
               = (Severity(exception.severity) > Severity("ErrorException"))
          /\ last'.reported = (~last'.status \/ last'.arg)
          /\ last'.reported => exception'.severity = "UndefinedException"
          /\ ~last'.reported => exception' = exception
          /\ (last.op = "CatchException" /\ last.status /\ ~last.arg
                /\ last'.arg)
               => last'.status /\ last'.reported
          /\ UNCHANGED <<images, image_index, image_list_stack, image_info,
                         image_info_stack, draw_info, quantize_info,
                         signature>>]_vars

\* A fatal record drained without all_exceptions: true, and the record kept.
C18_Witness ==
  /\ last.op = "CatchException"
  /\ last.status
  /\ ~last.arg
  /\ ~last.reported
  /\ exception.severity = "ResourceLimitFatalError"

\* C19 as stated: clone with no open group, whatever its argument, reports
\* that there is nothing to clone from (UnableToCloneImage) and changes
\* nothing.
C19_CloneFromEmptyStack ==
  [][last'.op = "clone" /\ image_list_stack = <<>>
       => last'.err = "UnableToCloneImage" /\ NothingChanges]_vars

\* C19 amended: clone with no open group changes nothing; "+clone", and
\* "-clone" with a well-formed scene argument, report UnableToCloneImage,
\* while "-clone" with a malformed argument reports InvalidArgument.
C19_CloneFromEmptyStackByArgument ==
  [][last'.op = "clone" /\ image_list_stack = <<>>
       => /\ NothingChanges
          /\ last'.err = IF last'.sigil = "-" /\ ~IsSceneGeometry(last'.arg)
                         THEN "InvalidArgument"
                         ELSE "UnableToCloneImage"
          /\ Severity(exception'.severity) >= Severity("OptionError")]_vars

C19_Witness ==
  /\ last.op = "clone"
  /\ last.sigil = "-"
  /\ last.arg = "0"
  /\ last.err = "UnableToCloneImage"
  /\ image_list_stack = <<>>
  /\ images # <<>>

\* The malformed argument on an empty stack: InvalidArgument comes first.
C19_WitnessMalformed ==
  /\ last.op = "clone"
  /\ last.arg = "x"
  /\ last.err = "InvalidArgument"
  /\ image_list_stack = <<>>

\* The images of a saved list that a clone option names.
SelectedOf(saved, sigil, arg) ==
  CASE sigil = "+" -> <<saved[Len(saved)]>>
    [] arg = "0" -> <<saved[1]>>
    [] arg = "1" -> <<saved[2]>>
    [] OTHER -> saved

\* C20: a successful clone reads the list saved on top of the image-list
\* stack, never the current list: the current images stay where they are and
\* copies (new handles) of the selected saved images follow them; the saved
\* lists, both stacks and the settings are unchanged; "+clone" selects the
\* last image of the saved list.
C20_CloneAppendsSaved ==
  [][last'.op = "clone" /\ last'.err = "none"
       => /\ image_list_stack # <<>>
          /\ image_list_stack' = image_list_stack
          /\ image_info_stack' = image_info_stack
          /\ image_info' = image_info
          /\ Len(images') > Len(images)
          /\ SubSeq(images', 1, Len(images)) = images
          /\ SrcOf(SubSeq(images', Len(images) + 1, Len(images')))
               = SrcOf(SelectedOf(Head(image_list_stack), last'.sigil,
                                  last'.arg))
          /\ \A k \in Len(images) + 1..Len(images') :
               images'[k].h \notin LiveHandles(Wand)]_vars

\* "+clone" in a fresh group with two different saved images: the one copy
\* is of the last saved image.
C20_Witness ==
  /\ last.op = "clone"
  /\ last.sigil = "+"
  /\ last.err = "none"
  /\ image_list_stack # <<>>
  /\ SrcOf(Head(image_list_stack)) = <<"b", "a">>
  /\ SrcOf(images) = <<"a">>

\* The names of the setting options.
SettingNames == {o[1] : o \in SetOptions}

\* C21: a setting option, whatever its name and sigil, leaves the image list
\* and the image-list stack as they are and completes: no error is recorded
\* and no assertion fails, also when there is no image. The one error left
\* aside is that of an argument naming an image file that cannot be read.
C21_SettingsTolerateNoImages ==
  [][last'.op \in SettingNames
       => /\ images' = images
          /\ image_index' = image_index
          /\ image_list_stack' = image_list_stack
          /\ last'.err # "UnableToOpenFile"
               => last'.err = "none" /\ exception' = exception]_vars

\* The frame part of C21 alone: images and the image-list stack are never
\* touched by a setting option.
C21_SettingsKeepImages ==
  [][last'.op \in SettingNames
       => /\ images' = images
          /\ image_index' = image_index
          /\ image_list_stack' = image_list_stack]_vars

\* "+tile" with no fill pattern held and no image: the handler does not
\* complete.
C21_Witness ==
  /\ last.op = "tile"
  /\ last.sigil = "+"
  /\ last.err = "AssertionFailed"
  /\ images = <<>>

\* The option just applied is the one applied right before it.
AppliedTwice ==
  /\ last'.op \in SettingNames
  /\ last.op = last'.op
  /\ last.sigil = last'.sigil
  /\ last.arg = last'.arg

\* C22: a setting option applied a second time in succession, with the same
\* sigil and argument, completes and leaves the settings, the draw defaults
\* and the quantize defaults as the first application left them; the only
\* error it may report is the one the first application reported, for a
\* file that cannot be read.
C22_SettingIdempotent ==
  [][AppliedTwice
       => /\ last'.err \in {"none", "UnableToOpenFile"}
          /\ last'.err = last.err
          /\ image_info' = image_info
          /\ draw_info' = draw_info
          /\ quantize_info' = quantize_info]_vars

\* C22 for every option but "+tile".
C22_IdempotentButUnsetTile ==
  [][AppliedTwice /\ ~(last'.op = "tile" /\ last'.sigil = "+")
       => /\ last'.err \in {"none", "UnableToOpenFile"}
          /\ last'.err = last.err
          /\ image_info' = image_info
          /\ draw_info' = draw_info
          /\ quantize_info' = quantize_info]_vars

\* "+tile" applied twice to a wand that held a fill pattern.
C22_Witness ==
  /\ last.op = "tile"
  /\ last.sigil = "+"
  /\ last.err = "AssertionFailed"
  /\ budget = 3

\* C23: "{" saves the settings record in use and goes on with a copy equal
\* to it; a setting option never alters a saved record, so the records on
\* the stack stay as they were when saved; "}" makes the record saved by
\* the matching "{" the active one again.
C23_SavedSettingsRestored ==
  [][/\ last'.op = "{" /\ last'.err = "none"
        => /\ image_info_stack' = <<image_info>> \o image_info_stack
           /\ image_info' = image_info
     /\ last'.op \in SettingNames => image_info_stack' = image_info_stack
     /\ given' = image_info_stack'
     /\ last'.op = "}" /\ last'.err = "none"
        => /\ given # <<>>
           /\ image_info' = Head(given)
           /\ image_info_stack' = Tail(image_info_stack)]_vars

\* A setting option applied inside a settings group: the active record has
\* changed, the saved one has not.
C23_Witness ==
  /\ last.op \in SettingNames
  /\ image_info_stack # <<>>
  /\ given = image_info_stack
  /\ Head(image_info_stack) # image_info

\* "}" after a setting was changed inside the group: the record saved by
\* "{" is active again.
C23_WitnessRestored ==
  /\ last.op = "}"
  /\ last.err = "none"
  /\ budget > 0
  /\ image_info = AcquireImageInfo

\* The tokens of an argument string: what stands between its commas.
RECURSIVE Split(_)
Split(s) ==
  IF s = <<>> THEN <<>>
  ELSE LET e == TokenEnd(s, 1)
       IN (IF e > 1 THEN <<SubSeq(s, 1, e - 1)>> ELSE <<>>)
            \o Split(SubSeq(s, e + 1, Len(s)))

\* The total of pass 1 as the claim words it: one per bare number, C per
\* color token.
RECURSIVE TotalCount(_, _)
TotalCount(tokens, C) ==
  IF tokens = <<>> THEN 0
  ELSE (IF IsColorToken(Head(tokens)) THEN C ELSE 1)
         + TotalCount(Tail(tokens), C)

\* C24: when the total counted in pass 1 is no multiple of 2+C the parser
\* reports the count error and returns no image, with no array allocated or
\* filled and the interpolation not called; when it is a multiple, the
\* parser reports nothing and goes on to allocate.
C24_CountCheckFirst ==
  [][parse.pc = "start"
       => LET total == TotalCount(Split(parse.arguments), parse.number_colors)
          IN /\ parse'.number_arguments = total
             /\ total % (2 + parse.number_colors) # 0
                => /\ parse'.pc = "returned"
                   /\ parse'.returned = "NULL"
                   /\ parse'.why = "Invalid number of Arguments"
                   /\ last'.err = "InvalidArgument"
                   /\ exception'.severity = "OptionError"
                   /\ ~parse'.held
                   /\ parse'.sparse_arguments = <<>>
                   /\ ~parse'.called
             /\ total % (2 + parse.number_colors) = 0
                => /\ parse'.pc = "counted"
                   /\ last'.err = "none"
                   /\ exception' = exception]_vars

\* Six arguments counted for an RGB image: refused, nothing allocated.
C24_Witness ==
  /\ parse.pc = "returned"
  /\ parse.why = "Invalid number of Arguments"
  /\ parse.number_colors = 3
  /\ parse.number_arguments = 6
  /\ ~parse.held

\* The argument string of the example: "0,0,red,10,10,#00ff00".
ExampleArguments ==
  Join(<<<<"0">>, <<"0">>, <<"r", "e", "d">>, <<"1", "0">>, <<"1", "0">>,
         <<"#", "0", "0", "f", "f", "0", "0">>>>)

\* The example parsed for an RGB image, its array allocated.
ExampleParsed ==
  /\ parse.pc = "returned"
  /\ parse.arguments = ExampleArguments
  /\ parse.number_colors = 3
  /\ parse.why # "MemoryAllocationFailed"

\* C25 as stated: the example, parsed with three color channels, gives 12
\* numeric values.
C25_ExampleTwelveValues ==
  ExampleParsed => parse.called /\ Len(parse.passed) = 12

\* C25 amended: the example gives 10 numeric values, two coordinates and
\* three channel values, twice: 0,0 with red and 10,10 with green.
C25_ExampleTenValues ==
  ExampleParsed
    => /\ parse.called
       /\ parse.why = NULL
       /\ parse.number_arguments = 10
       /\ parse.passed = <<0, 0, 1, 0, 0, 10, 10, 0, 1, 0>>

C25_Witness ==
  /\ ExampleParsed
  /\ parse.called
  /\ Len(parse.passed) = 10
  /\ parse.returned = "image"

\* The first n tokens are all bare numbers.
AllNumbers(tokens, n) ==
  Len(tokens) >= n /\ \A k \in 1..n : ~IsColorToken(tokens[k])

\* The grammar of the claim, read off a token stream: a sequence of groups,
\* each an x number, a y number and then one color token or C bare numbers.
\* ok tells whether the whole stream is such a sequence, out the values it
\* stands for and groups how many groups it has.
RECURSIVE Groups(_, _)
Groups(tokens, C) ==
  IF tokens = <<>> THEN [ok |-> TRUE, out |-> <<>>, groups |-> 0]
  ELSE IF AllNumbers(tokens, 2) /\ Len(tokens) >= 3
          /\ IsColorToken(tokens[3])
  THEN LET rest == Groups(SubSeq(tokens, 4, Len(tokens)), C)
       IN [ok |-> rest.ok,
           out |-> <<StringToDouble(tokens[1]), StringToDouble(tokens[2])>>
                     \o [k \in 1..C |->
                           ColorValue(tokens[3], ChannelsOf(C)[k])]
                     \o rest.out,
           groups |-> rest.groups + 1]
  ELSE IF AllNumbers(tokens, 2 + C)
  THEN LET rest == Groups(SubSeq(tokens, 3 + C, Len(tokens)), C)
       IN [ok |-> rest.ok,
           out |-> [k \in 1..2 + C |-> StringToDouble(tokens[k])]
                     \o rest.out,
           groups |-> rest.groups + 1]
  ELSE [ok |-> FALSE, out |-> <<>>, groups |-> 0]

\* The parser has returned and its allocation, if it came to it, succeeded.
ParsedWithMemory ==
  parse.pc = "returned" /\ parse.why # "MemoryAllocationFailed"

\* C26: for every token stream and every C in 1..5 the parser calls the
\* interpolation with an array exactly when the stream is a sequence of
\* complete groups; the array then has (2+C) values per group, C for a
\* color token and the bare numbers as they stand, in order. Any other
\* stream is reported as an error and no image is returned.
C26_GrammarOfGroups ==
  ParsedWithMemory
    => LET g == Groups(Split(parse.arguments), parse.number_colors)
       IN /\ parse.called = g.ok
          /\ g.ok => /\ parse.passed = g.out
                      /\ Len(parse.passed)
                           = (2 + parse.number_colors) * g.groups
                      /\ last.err = "none"
          /\ ~g.ok => /\ parse.returned = "NULL"
                       /\ last.err = "InvalidArgument"
                       /\ exception.severity = "OptionError"

\* One group for a five-channel image with its color given as five bare
\* numbers.
C26_Witness ==
  /\ ParsedWithMemory
  /\ parse.called
  /\ parse.number_colors = 5
  /\ parse.passed = <<0, 10, 10, 0, 10, 0, 10>>

\* A color token stands where the x or y coordinate of a group is
\* expected, the groups before it being complete.
RECURSIVE ColorForCoordinate(_, _)
ColorForCoordinate(tokens, C) ==
  IF tokens = <<>> THEN FALSE
  ELSE IF IsColorToken(tokens[1]) THEN TRUE
  ELSE IF Len(tokens) < 2 THEN FALSE
  ELSE IF IsColorToken(tokens[2]) THEN TRUE
  ELSE IF Len(tokens) < 3 THEN FALSE
  ELSE IF IsColorToken(tokens[3])
  THEN ColorForCoordinate(SubSeq(tokens, 4, Len(tokens)), C)
  ELSE IF AllNumbers(tokens, 2 + C)
  THEN ColorForCoordinate(SubSeq(tokens, 3 + C, Len(tokens)), C)
  ELSE FALSE

ColorFound ==
  {"Color found, instead of X-coord", "Color found, instead of Y-coord"}

\* C27: an argument that passed the count check and has a color token where
\* an x or y coordinate is expected is reported as such (and only such an
\* argument is); no image is returned and the interpolation is not called.
C27_ColorForCoordinateRefused ==
  (ParsedWithMemory /\ parse.why # "Invalid number of Arguments")
    => /\ ColorForCoordinate(Split(parse.arguments), parse.number_colors)
           = (parse.why \in ColorFound)
       /\ parse.why \in ColorFound
          => /\ parse.error
             /\ parse.returned = "NULL"
             /\ ~parse.called
             /\ last.err = "InvalidArgument"
             /\ exception.severity = "OptionError"

\* "0,0,red,red,..." for a one-channel image: the second group starts with
\* a color.
C27_Witness ==
  /\ parse.pc = "returned"
  /\ parse.why = "Color found, instead of X-coord"
  /\ parse.x = 3
  /\ parse.number_arguments = 6

\* C28: whenever the parser returns no image, the array it allocated, if
\* any, has been released.
C28_ArrayReleased ==
  parse.pc = "returned" /\ parse.returned = "NULL" => ~parse.held

\* The count error and the short fill do release, or never allocate.
C28_ReleasedButColorFound ==
  (parse.pc = "returned" /\ parse.returned = "NULL"
     /\ parse.why \notin ColorFound)
    => ~parse.held

\* A color for a coordinate: no image, and the array still allocated.
C28_Witness ==
  /\ parse.pc = "returned"
  /\ parse.returned = "NULL"
  /\ parse.why \in ColorFound
  /\ parse.held

\* The per-image and the whole-list operators of the control specification.
DispatchOptions == {"negate", "resize", "append", "reverse"}

\* The control operators.
ControlOptions ==
  {"(", ")", "{", "}", "clone", "read", "noop", "sans", "list"}

\* C29: a per-image or whole-list operator entered with an empty image list
\* stops at the contract assertion with nothing changed: not the list, the
\* settings or the stacks, no settings synchronized, nothing recorded in the
\* exception sink; and every control operator (push, pop, clone, read, no-op,
\* list) given with an empty image list runs to its end.
C29_EmptyListContract ==
  [][/\ (images = <<>> /\ last'.op \in DispatchOptions)
          => /\ last'.err = "AssertionFailed"
             /\ NothingChanges
             /\ image_index' = image_index
             /\ exception' = exception
             /\ last'.syncs = 0
     /\ (images = <<>> /\ last'.op \in ControlOptions)
          => last'.err \notin {"AssertionFailed", "SegmentationFault"}]_vars

\* A dispatcher has tripped the assertion inside an open group whose list is
\* empty while the sink already holds an earlier exception.
C29_Witness ==
  /\ last.op \in DispatchOptions
  /\ last.err = "AssertionFailed"
  /\ images = <<>>
  /\ image_list_stack # <<>>
  /\ exception.severity # "UndefinedException"

\* A clone has completed with an empty current list.
C29_WitnessControl ==
  /\ last.op = "clone"
  /\ last.err = "none"
  /\ Len(images) = 1
  /\ image_list_stack # <<>>

\* C30: a read keeps the images present and appends the loaded ones, newly
\* allocated and in order, after them; it changes neither stack nor the
\* settings; it loads through PingImages exactly when the ping flag of the
\* active settings is set and through ReadImages otherwise; a load that
\* yields nothing leaves the list as it was.
C30_ReadAppends ==
  [][last'.op = "read"
       => /\ Len(images') = Len(images) + given'[1]
          /\ SubSeq(images', 1, Len(images)) = images
          /\ \A k \in (Len(images) + 1)..Len(images') :
               /\ images'[k].src = last'.arg
               /\ images'[k].h \notin LiveHandles(Wand)
               /\ \A j \in (Len(images) + 1)..(k - 1) :
                    images'[j].h # images'[k].h
          /\ image_list_stack' = image_list_stack
          /\ image_info_stack' = image_info_stack
          /\ image_info' = image_info
          /\ last'.entry = IF image_info.ping THEN "PingImages"
                           ELSE "ReadImages"
          /\ (given'[1] = 0 => images' = images)]_vars

\* A probing read has appended one image to a list that held one, inside a
\* settings group whose saved record has the ping flag off.
C30_Witness ==
  /\ last.op = "read"
  /\ last.entry = "PingImages"
  /\ given = <<1>>
  /\ Len(images) = 2
  /\ images[1].src # images[2].src
  /\ image_info_stack # <<>>
  /\ ~Head(image_info_stack).ping

\* A full read that yielded nothing has left a list of one image alone.
C30_WitnessNothing ==
  /\ last.op = "read"
  /\ last.entry = "ReadImages"
  /\ given = <<0>>
  /\ Len(images) = 1

\* The toggle of a settings record is set.
Respects(info) == GetImageOption(info, "respect-parenthesis") # NULL

\* C31: a "(" that pushed the image list goes on to the settings push exactly
\* when the toggle is set in the settings in use, which it then saves; a ")"
\* that popped the image list goes on to the settings pop exactly when the
\* settings stack is not empty and the record on top of it has the toggle
\* set, whatever the toggle of the settings in use.
C31_CouplingRule ==
  [][/\ (last'.op = "("
          /\ Len(image_list_stack') = Len(image_list_stack) + 1)
         => IF Respects(image_info)
            THEN /\ last'.entry = "{"
                 /\ Len(image_info_stack) < MAX_STACK_DEPTH
                      => image_info_stack' = <<image_info>> \o image_info_stack
            ELSE /\ last'.entry = NULL
                 /\ image_info_stack' = image_info_stack
                 /\ image_info' = image_info
     /\ (last'.op = ")"
          /\ Len(image_list_stack') = Len(image_list_stack) - 1)
         => IF image_info_stack # <<>> /\ Respects(Head(image_info_stack))
            THEN /\ last'.entry = "}"
                 /\ image_info_stack' = Tail(image_info_stack)
                 /\ image_info' = Head(image_info_stack)
            ELSE /\ last'.entry = NULL
                 /\ image_info_stack' = image_info_stack
                 /\ image_info' = image_info]_vars

\* A ")" has left the settings alone although the toggle is set in the
\* settings in use: the record on top of the settings stack has it off.
C31_Witness ==
  /\ last.op = ")"
  /\ last.err = "none"
  /\ last.entry = NULL
  /\ Respects(image_info)
  /\ image_info_stack # <<>>
  /\ ~Respects(Head(image_info_stack))

\* A ")" has popped the settings and the restored record has the toggle set.
C31_WitnessPopped ==
  /\ last.op = ")"
  /\ last.entry = "}"
  /\ Respects(image_info)

\* C32: a "(" processed while the toggle is set in the settings in use
\* either pushes both the image list and the settings, or reports an error
\* and leaves the image list, both stacks and the settings as they were.
C32_PushAllOrNothing ==
  [][(last'.op = "(" /\ Respects(image_info))
       => \/ /\ last'.err = "none"
             /\ image_list_stack' = <<images>> \o image_list_stack
             /\ images' = <<>>
             /\ image_info_stack' = <<image_info>> \o image_info_stack
          \/ /\ last'.err # "none"
             /\ images' = images
             /\ NothingChanges]_vars

\* A "(" with the toggle set has reported an error after it pushed the image
\* list: the list in use is empty and the image-list stack is deeper than
\* the settings stack would allow.
C32_HalfPushed ==
  /\ last.op = "("
  /\ last.err = "ParenthesisNestedTooDeeply"
  /\ last.entry = "{"
  /\ Len(image_list_stack) = MAX_STACK_DEPTH
  /\ Len(image_info_stack) = MAX_STACK_DEPTH

\* C33: with "(" and ")" as the only grouping options, the settings stack is
\* never deeper than the image-list stack, every record on the settings
\* stack has the toggle set, and a ")" that closes a group leaves both
\* stacks at the depths they had when the "(" of that group was given,
\* whatever those depths were.
C33_BalancedRestoresDepths ==
  [][/\ Len(image_info_stack') <= Len(image_list_stack')
     /\ \A k \in 1..Len(image_info_stack') : Respects(image_info_stack'[k])
     /\ (last'.op = ")" /\ last'.err = "none" /\ opened # <<>>)
          => /\ Len(image_list_stack') = Len(opened) - 1
             /\ Len(image_info_stack') = Head(opened).depth]_vars

\* The first two parts of C33 alone, on every reachable state: the settings
\* stack is never deeper than the image-list stack, and every record on it
\* has the toggle set.
C33_ParenthesesOnly ==
  /\ Len(image_info_stack) <= Len(image_list_stack)
  /\ \A k \in 1..Len(image_info_stack) : Respects(image_info_stack[k])

\* C33 for the groups opened with both stacks empty: the ")" that closes
\* the last open group leaves both stacks empty.
C33_BalancedFromStart ==
  opened = <<>> => image_list_stack = <<>> /\ image_info_stack = <<>>

\* Inside three open groups of which one saved the settings, with the toggle
\* off in the settings in use.
C33_Witness ==
  /\ Len(image_list_stack) = 3
  /\ Len(image_info_stack) = 1
  /\ ~Respects(image_info)
  /\ last.op = "("

\* The last of two nested groups has been closed, the toggle having been
\* switched inside them.
C33_WitnessBalanced ==
  /\ last.op = ")"
  /\ last.err = "none"
  /\ opened = <<>>
  /\ image_list_stack = <<>>
  /\ image_info_stack = <<>>
  /\ Respects(image_info)
  /\ images # <<>>

\* C34: a "{" followed at once by "}" leaves the draw defaults and the
\* quantize defaults as they were before the "{", the values kept only in
\* the draw defaults or only in the quantize defaults included.
C34_SettingsGroupRoundTrip ==
  [][(last.op = "{" /\ last.err = "none" /\ last'.op = "}")
       => /\ draw_info' = draw_info
          /\ quantize_info' = quantize_info]_vars

\* C35: in the fill loop the index never passes the size pass 1 computed:
\* at the head of every turn it is a multiple of 2+number_colors and below
\* the size, and when the loop is left it is at most the size, so that no
\* value was stored at or beyond the size.
C35_FillWithinArray ==
  /\ \A k \in 1..Len(parse.starts) :
       /\ parse.starts[k] % (2 + parse.number_colors) = 0
       /\ parse.starts[k] < parse.number_arguments
  /\ parse.pc = "returned" => parse.x <= parse.number_arguments

\* The fill loop took two turns for a two-channel image and filled the
\* array to its end, with the color given once as a name and once as
\* numbers.
C35_Witness ==
  /\ parse.pc = "returned"
  /\ parse.number_colors = 2
  /\ parse.starts = <<0, 4>>
  /\ parse.x = 8
  /\ parse.number_arguments = 8
  /\ parse.sparse_arguments = <<0, 10, 1, 1, 10, 0, 10, 0>>

\* The fill loop was left in its first turn, at a color that stands where
\* the number of a channel is expected, with the array filled short.
C35_WitnessShort ==
  /\ parse.pc = "returned"
  /\ parse.number_colors = 3
  /\ parse.starts = <<0>>
  /\ parse.x = 3
  /\ parse.number_arguments = 10
  /\ parse.why = "Argument Parsing Error"

\* C36: "clut" given with two or more images, exactly two included, runs to
\* its end without a read through an empty list and leaves the list holding
\* one image, the first of the list it was given.
C36_ClutCompletes ==
  [][(last'.op = "clut" /\ Len(images) >= 2)
       => /\ last'.err = "none"
          /\ images' = <<Head(images)>>]_vars

\* The sources of the images of a list, in order.
SourcesOf(list) == [k \in 1..Len(list) |-> list[k].src]

\* The layer method an option is redirected to.
LayerMethodOf(option) ==
  IF option = "deconstruct" THEN "CompareAny" ELSE option

\* C37: "flatten", "mosaic" and "deconstruct" leave the image list as
\* "layers" with the method flatten, mosaic and CompareAny leaves it.
C37_RedirectedAsLayers ==
  [][(last'.op \in {"deconstruct", "flatten", "mosaic"})
       => SourcesOf(images') =
            SourcesOf(ListOperatorImages(Wand, "-", "layers",
                                         LayerMethodOf(last'.op), TRUE).images)
    ]_vars

\* C38: "box" given with a value, or unset, leaves the settings and the draw
\* defaults as "undercolor" given with that value, or unset, leaves them.
C38_BoxIsUndercolor ==
  [][last'.op = "box"
       => LET as == SettingOptionInfo(Wand, last'.sigil, "undercolor",
                                      last'.arg, TRUE)
          IN /\ image_info' = as.image_info
             /\ draw_info' = as.draw_info]_vars

\* C39: "verbose" with either sigil clears the ping flag, so that a read
\* given right after it decodes in full, whatever was set before, and a
\* read given right after "-ping" only probes, also when "verbose" came
\* before the "-ping".
C39_VerboseClearsPing ==
  [][/\ last'.op = "verbose"
          => /\ ~image_info'.ping
             /\ image_info'.verbose = (last'.sigil = "-")
     /\ (last'.op = "read" /\ last.op = "verbose")
          => last'.entry = "ReadImages"
     /\ (last'.op = "read" /\ last.op = "ping" /\ last.sigil = "-")
          => last'.entry = "PingImages"]_vars

\* A read has decoded in full after "-ping" and then "+verbose".
C39_Witness ==
  /\ last.op = "read"
  /\ last.entry = "ReadImages"
  /\ given = <<[op |-> "verbose", sigil |-> "+"],
               [op |-> "ping", sigil |-> "-"]>>

\* A read has only probed after "-verbose" and then "-ping".
C39_WitnessProbe ==
  /\ last.op = "read"
  /\ last.entry = "PingImages"
  /\ image_info.verbose
  /\ given = <<[op |-> "ping", sigil |-> "-"],
               [op |-> "verbose", sigil |-> "-"]>>

\* C40, as stated: a blur-family option whose argument gives no sigma calls
\* its transform with sigma equal to rho.
C40_SigmaDefaultsToRho ==
  [][(last'.op \in BlurFamily /\ ~ParseGeometry(last'.arg).SigmaValue)
       => last'.call.sigma = last'.call.rho]_vars

\* C40, amended: a blur-family option calls its transform with the rho of
\* its argument, with the sigma of its argument or 1.0 when the argument
\* gives none, and with the xi of its argument or 0.0 when it gives none.
C40_SigmaDefaultsToOne ==
  [][last'.op \in BlurFamily
       => LET geometry_info == ParseGeometry(last'.arg)
          IN /\ last'.call.name = BlurTransform(last'.op)
             /\ last'.call.rho = geometry_info.rho
             /\ last'.call.sigma = IF geometry_info.SigmaValue
                                   THEN geometry_info.sigma ELSE 1
             /\ last'.call.xi = IF geometry_info.XiValue
                                THEN geometry_info.xi ELSE 0]_vars

\* "blur" given with the argument "3" has called BlurImage with rho 3 and
\* sigma 1 for the second of two images.
C40_Witness ==
  /\ last.op = "blur"
  /\ last.arg = "3"
  /\ last.call = [name |-> "BlurImage", rho |-> 3, sigma |-> 1, xi |-> 0]
  /\ last.n = 2
  /\ last.made = 2

====
